---- MODULE Spec2Model ----
(***************************************************************************)
(* Transaction-construction and resilience engine of Eclipse-CLI:          *)
(* connection pool, blockhash cache, venue cache and discovery, token      *)
(* classification.  Each component is a state machine of its own; the      *)
(* variables of the components a specification does not exercise keep      *)
(* their constructed value.                                                *)
(***************************************************************************)
EXTENDS Integers, Sequences, FiniteSets, TLC

(***************************************************************************)
(* Bounds                                                                  *)
(***************************************************************************)
NumEndpoints == 2      \* distinct valid RPC urls
MaxFallbacks == 1      \* length of options.fallbackRpcUrls
MaxConns == 2          \* handles the pool may hold
MaxRounds == 2         \* probe rounds in flight at once (timer does not wait)
MaxFailCount == 3      \* cap of failedConnectionAttempts
MaxCallers == 2        \* concurrent getBlockhash callers
MaxRuns == 2           \* updateBlockhash runs in flight at once
MaxClock == 2          \* clock steps the model follows
MaxSlot == 2           \* blockhashes the ledger issues
NumTokens == 2         \* token mints besides the native mint
MaxVenues == 2         \* venues the ledger may hold
MaxVenueCalls == 1     \* discoveries in flight at once
MaxTokenCalls == 2     \* classification requests in flight at once
MaxTokenClock == 2     \* steps the classification clock takes
MaxSwapClock == 2      \* half tip-cache lifetimes the swap clock runs
MaxSwaps == 2          \* swaps the model follows
MaxChainTokens == 4    \* tokens the wallet's account may hold
MaxNotifs == 2         \* account-change notifications awaiting delivery
MaxHandlers == 2       \* notification callbacks running at once
MaxTrackerClock == 3   \* half debounce windows the tracker clock runs
MaxTransfers == 2      \* transfers by other senders
MaxHeld == 1           \* tokens an account of the multi-token tracker holds
MaxAccountChanges == 2 \* changes of the wallet's token accounts
MaxRestarts == 1       \* restarts of the process
MaxSubscriptions == 4  \* subscriptions the ledger client hands out
MaxSetups == 2         \* setupAccountMonitoring calls in progress at once

(***************************************************************************)
(* ConnectionPool (src/utils/connection/connectionPool.ts)                 *)
(***************************************************************************)
VARIABLES connections, roundRobinIndex, isInitialized,
          failedConnectionAttempts, connectionHealth,
          healthCheckInterval, lastSuccessfulConnection,
          rounds, poolEvent, probeFailStreak

poolVars == <<connections, roundRobinIndex, isInitialized,
              failedConnectionAttempts, connectionHealth,
              healthCheckInterval, lastSuccessfulConnection,
              rounds, poolEvent, probeFailStreak>>

(***************************************************************************)
(* BlockhashManager (src/utils/swaps/blockhashManager.ts)                  *)
(***************************************************************************)
VARIABLES connection, currentBlockhashInfo, updateInterval, blockhashPromise,
          runs, callers, clock, nextTick, ledgerSlot, bhReturn,
          firstFetchAt, earlyFirst, fetched

bhVars == <<connection, currentBlockhashInfo, updateInterval, blockhashPromise,
            runs, callers, clock, nextTick, ledgerSlot, bhReturn,
            firstFetchAt, earlyFirst, fetched>>

(***************************************************************************)
(* Venue discovery (src/utils/pools/poolDiscovery.ts) and                  *)
(* PersistentPoolCache (src/utils/pools/persistentPoolCache.ts)            *)
(***************************************************************************)
VARIABLES ledgerVenues, poolCache, poolsCacheFile, venueCalls, venueEvent,
          lastSet

venueVars == <<ledgerVenues, poolCache, poolsCacheFile, venueCalls,
               venueEvent, lastSet>>

(***************************************************************************)
(* Token classification: TokenTypeCache (src/utils/pools/tokenTypeCache.ts)*)
(* and isPumpFunToken (src/utils/swaps/pumpSwap.ts)                        *)
(***************************************************************************)
VARIABLES tokenCache, tokenTypesFile, pendingChecks, bondingCurves,
          tokenClock, tokenCalls, tokenEvent, probedAt

tokenVars == <<tokenCache, tokenTypesFile, pendingChecks, bondingCurves,
               tokenClock, tokenCalls, tokenEvent, probedAt>>

(***************************************************************************)
(* Swap functions: swapSolToToken, swapTokenToSol                          *)
(* (src/utils/swaps/regularSwap.ts), swapSolToPumpToken, swapPumpTokenToSol*)
(* (src/utils/swaps/pumpSwap.ts), and the tip (src/utils/fees/jito.ts)     *)
(***************************************************************************)
VARIABLES feeSettings, cachedTipInfo, swapClock, swapCall, swapCount

swapVars == <<feeSettings, cachedTipInfo, swapClock, swapCall, swapCount>>

\* the last call of the quote functions: its arguments and its result
VARIABLES quoteCall

\* the last instruction built: the builder, its arguments and the instruction
VARIABLES ixCall

\* the last swap operation that failed: the operation, the error its swap
\* threw, the attempts made and what it threw to its caller
VARIABLES errCall

fnVars == <<quoteCall, ixCall, errCall>>

\* PortfolioTracker for one token: trackedPositions and currentBalances
\* entries, the account subscription, the wallet's token account on the
\* ledger, account-change notifications not yet delivered, the running
\* notification callbacks, the tracker's clock, the time of the last
\* increase of totalSold or totalBought, and the count of transfers by others
VARIABLES trackedPosition, currentBalance, subscribed, chainAccount, notifs,
          handlers, trackerClock, lastDeltaAt, transfers

trackerVars == <<trackedPosition, currentBalance, subscribed, chainAccount,
                 notifs, handlers, trackerClock, lastDeltaAt, transfers>>

\* PortfolioTracker over its maps of tokens: the maps, the subscriptions and
\* the listeners they stand for, the initialization flags, the positions
\* file, the wallet's token accounts and the tracker call in progress
VARIABLES trackedPositions, currentBalances, accountSubscriptions, listeners,
          trackerInitialized, initializationPromise, positionsFile,
          tokenAccounts, accountNotified, monCall, accountChanges, restarts

monVars == <<trackedPositions, currentBalances, accountSubscriptions, listeners,
             trackerInitialized, initializationPromise, positionsFile,
             tokenAccounts, accountNotified, monCall, accountChanges, restarts>>

\* a bonding-curve swap function from its call to its return: the attempt
\* it is in, the bonding-curve account it read, the instruction it built
VARIABLES pumpCall

curveVars == <<pumpCall>>

\* a swap request from its handler down to the attempts of its swap function
VARIABLES swapOp

opVars == <<swapOp>>

\* one notification handled by the tracker: the balance entry before, the
\* arguments, and the entry after
VARIABLES balanceCall

deltaVars == <<balanceCall>>

\* the subscriptions of one token: the ids the ledger client holds a listener
\* for, the id the tracker's map holds, and the setups in progress
VARIABLES clientListeners, subscriptionOf, nextClientSubscriptionId, setups

subVars == <<clientListeners, subscriptionOf, nextClientSubscriptionId, setups>>

vars == <<poolVars, bhVars, venueVars, tokenVars, swapVars, fnVars, trackerVars,
          monVars, curveVars, opVars, deltaVars, subVars>>

\* the variables of the other components, which a component's step leaves alone
notPoolVars == <<bhVars, venueVars, tokenVars, swapVars, fnVars, trackerVars,
    monVars, curveVars, opVars, deltaVars, subVars>>
notBhVars == <<poolVars, venueVars, tokenVars, swapVars, fnVars, trackerVars,
    monVars, curveVars, opVars, deltaVars, subVars>>
notVenueVars == <<poolVars, bhVars, tokenVars, swapVars, fnVars, trackerVars,
    monVars, curveVars, opVars, deltaVars, subVars>>
notCacheVars == <<poolVars, bhVars, swapVars, fnVars, trackerVars, monVars, curveVars, opVars, deltaVars, subVars>>
notSwapVars == <<poolVars, bhVars, venueVars, tokenVars, fnVars, trackerVars,
    monVars, curveVars, opVars, deltaVars, subVars>>
notFnVars == <<poolVars, bhVars, venueVars, tokenVars, swapVars, trackerVars,
    monVars, curveVars, opVars, deltaVars, subVars>>
notTradeVars == <<poolVars, bhVars, venueVars, tokenVars, fnVars, monVars, curveVars, opVars, deltaVars, subVars>>
notTrackerVars == <<poolVars, bhVars, venueVars, tokenVars, swapVars, fnVars,
    monVars, curveVars, opVars, deltaVars, subVars>>
notMonVars == <<poolVars, bhVars, venueVars, tokenVars, swapVars, fnVars,
    trackerVars, curveVars, opVars, deltaVars, subVars>>
notCurveVars == <<poolVars, bhVars, venueVars, tokenVars, swapVars, fnVars,
    trackerVars, monVars, opVars, deltaVars, subVars>>
notOpVars == <<poolVars, bhVars, venueVars, tokenVars, swapVars, fnVars,
    trackerVars, monVars, curveVars, deltaVars, subVars>>
notDeltaVars == <<poolVars, bhVars, venueVars, tokenVars, swapVars, fnVars,
    trackerVars, monVars, curveVars, opVars, subVars>>
notSubVars == <<poolVars, bhVars, venueVars, tokenVars, swapVars, fnVars,
    trackerVars, monVars, curveVars, opVars, deltaVars>>

InvalidUrl == 0
Urls == 1..NumEndpoints
RoundIds == 1..MaxRounds
UnhealthyThreshold == 3
IdleRound == [i |-> 0, ok |-> FALSE]
NoEvent == [op |-> "none", ret |-> 0, threw |-> FALSE, url |-> 0, ok |-> FALSE,
            reset |-> FALSE]

\* Sequences over S of length 0..n
RECURSIVE SeqsUpTo(_, _)
SeqsUpTo(S, n) ==
    IF n = 0 THEN {<<>>}
    ELSE LET shorter == SeqsUpTo(S, n - 1)
         IN  shorter \cup {Append(s, x) : s \in {t \in shorter : Len(t) = n - 1}, x \in S}

PoolInit ==
    /\ connections = <<>>
    /\ roundRobinIndex = 0
    /\ isInitialized = FALSE
    /\ failedConnectionAttempts = [u \in Urls |-> 0]
    /\ connectionHealth = [u \in Urls |-> "absent"]
    /\ healthCheckInterval = FALSE
    /\ lastSuccessfulConnection = 0
    /\ rounds = [r \in RoundIds |-> IdleRound]
    /\ poolEvent = NoEvent
    /\ probeFailStreak = [u \in Urls |-> 0]

\* index of the first url of fb the Connection constructor rejects, 0 if none
FirstRejected(fb, primary) ==
    LET bad == {k \in 1..Len(fb) : fb[k] # primary /\ fb[k] = InvalidUrl}
    IN  IF bad = {} THEN 0 ELSE CHOOSE k \in bad : \A j \in bad : k <= j

\* the handles initialize pushes: the primary, then every fallback that
\* differs from it, up to the first one whose construction throws
PushedBy(primary, fb) ==
    LET bad == FirstRejected(fb, primary)
        upto == IF bad = 0 THEN fb ELSE SubSeq(fb, 1, bad - 1)
    IN  <<primary>> \o SelectSeq(upto, LAMBDA u : u # primary)

Range(s) == {s[k] : k \in 1..Len(s)}

\* the fields initialize(options) leaves behind and whether it threw;
\* primary is the url the options or the credentials manager supply
InitializeResult(primary, fb) ==
    LET cur == [connections |-> connections,
                connectionHealth |-> connectionHealth,
                lastSuccessfulConnection |-> lastSuccessfulConnection,
                healthCheckInterval |-> healthCheckInterval,
                isInitialized |-> isInitialized,
                threw |-> FALSE]
        pushed == PushedBy(primary, fb)
        threw == FirstRejected(fb, primary) # 0
    IN  IF isInitialized THEN cur
        ELSE IF primary = InvalidUrl THEN [cur EXCEPT !.threw = TRUE]
        ELSE [connections |-> connections \o pushed,
              connectionHealth |-> [u \in Urls |->
                    IF u \in Range(pushed) THEN "healthy" ELSE connectionHealth[u]],
              lastSuccessfulConnection |-> Len(connections) + 1,
              healthCheckInterval |-> (IF threw THEN healthCheckInterval ELSE TRUE),
              isInitialized |-> ~threw,
              threw |-> threw]

initialize(primary, fb) ==
    LET res == InitializeResult(primary, fb)
    IN  /\ Len(res.connections) <= MaxConns
        /\ connections' = res.connections
        /\ connectionHealth' = res.connectionHealth
        /\ lastSuccessfulConnection' = res.lastSuccessfulConnection
        /\ healthCheckInterval' = res.healthCheckInterval
        /\ isInitialized' = res.isInitialized
        /\ poolEvent' = [NoEvent EXCEPT !.op = "initialize", !.threw = res.threw]
        /\ UNCHANGED <<roundRobinIndex, failedConnectionAttempts, rounds, probeFailStreak>>
        /\ UNCHANGED notPoolVars

Initialize ==
    \E primary \in Urls \cup {InvalidUrl} :
        \E fb \in SeqsUpTo(Urls \cup {InvalidUrl}, MaxFallbacks) :
            initialize(primary, fb)

\* setInterval callback: checkConnectionHealth runs up to its first await
HealthCheckTick ==
    /\ healthCheckInterval
    /\ \E r \in RoundIds :
        /\ rounds[r].i = 0
        /\ \A q \in RoundIds : q < r => rounds[q].i # 0
        /\ rounds' = [rounds EXCEPT ![r] = [i |-> 1, ok |-> FALSE]]
    /\ poolEvent' = [NoEvent EXCEPT !.op = "tick"]
    /\ UNCHANGED <<connections, roundRobinIndex, isInitialized,
                   failedConnectionAttempts, connectionHealth,
                   healthCheckInterval, lastSuccessfulConnection, probeFailStreak>>
    /\ UNCHANGED notPoolVars

\* HealthAfterProbe flipping the flag one failure early
HealthAfterProbe_Early(u, success) ==
    IF success THEN [connectionHealth EXCEPT ![u] = "healthy"]
    ELSE IF failedConnectionAttempts[u] + 1 >= UnhealthyThreshold - 1
         THEN [connectionHealth EXCEPT ![u] = "unhealthy"]
         ELSE connectionHealth

\* maps after the probe of url u resolved (success) or rejected
HealthAfterProbe(u, success) ==
    IF success THEN [connectionHealth EXCEPT ![u] = "healthy"]
    ELSE IF failedConnectionAttempts[u] + 1 >= UnhealthyThreshold
         THEN [connectionHealth EXCEPT ![u] = "unhealthy"]
         ELSE connectionHealth

FailedAfterProbe(u, success) ==
    IF success THEN [failedConnectionAttempts EXCEPT ![u] = 0]
    ELSE [failedConnectionAttempts EXCEPT ![u] = @ + 1]

\* end of checkConnectionHealth: no probe of this round succeeded
ResetLastSuccessful(noneOk, last) == noneOk /\ last # 0

\* one await of checkConnectionHealth resolves; the round runs on to its
\* next await or to its end
checkConnectionHealth(r, success) ==
    LET i == rounds[r].i
        u == connections[i]
        ok == rounds[r].ok \/ success
        last == IF success THEN i ELSE lastSuccessfulConnection
        h1 == HealthAfterProbe(u, success)
        f1 == FailedAfterProbe(u, success)
        finished == i >= Len(connections)
        reset == finished /\ ResetLastSuccessful(~ok, last)
    IN  /\ i # 0
        /\ success \/ failedConnectionAttempts[u] < MaxFailCount
        /\ lastSuccessfulConnection' = last
        /\ connectionHealth' =
              IF reset THEN [h1 EXCEPT ![connections[last]] = "healthy"] ELSE h1
        /\ failedConnectionAttempts' =
              IF reset THEN [f1 EXCEPT ![connections[last]] = 0] ELSE f1
        /\ rounds' = [rounds EXCEPT ![r] =
              IF finished THEN IdleRound ELSE [i |-> i + 1, ok |-> ok]]
        /\ probeFailStreak' = [probeFailStreak EXCEPT ![u] =
              IF success THEN 0
              ELSE IF @ < UnhealthyThreshold THEN @ + 1 ELSE @]
        /\ poolEvent' = [NoEvent EXCEPT !.op = "probe", !.url = u, !.ok = success]
        /\ UNCHANGED <<connections, roundRobinIndex, isInitialized, healthCheckInterval>>
        /\ UNCHANGED notPoolVars

ProbeResolves == \E r \in RoundIds : checkConnectionHealth(r, TRUE)
ProbeRejects == \E r \in RoundIds : checkConnectionHealth(r, FALSE)

\* StepsToHealthy counting from the head of the list instead of from the
\* handle after rr
StepsToHealthy_FromHead(conns, rr, h) ==
    LET n == Len(conns)
        cand == {k \in 1..n : h[conns[k]] # "unhealthy"}
    IN  IF cand = {} THEN 0
        ELSE ((CHOOSE c \in cand : \A d \in cand : c <= d) - 1 - rr + n) % n

\* the round-robin loop over conns (0-based index rr): the number of steps
\* to the first handle whose url is not flagged unhealthy in h; 0 when a
\* full pass finds none
StepsToHealthy(conns, rr, h) ==
    LET n == Len(conns)
        cand == {k \in 1..n : h[conns[((rr + k) % n) + 1]] # "unhealthy"}
    IN  IF cand = {} THEN 0 ELSE CHOOSE c \in cand : \A d \in cand : c <= d

\* health flags getConnection works with: all keys reset when none is true
HealthForSelection(h) ==
    IF \E u \in Urls : h[u] = "healthy" THEN h
    ELSE [u \in Urls |-> IF h[u] = "absent" THEN "absent" ELSE "healthy"]

FailedForSelection(h, f) ==
    IF \E u \in Urls : h[u] = "healthy" THEN f
    ELSE [u \in Urls |-> IF h[u] = "absent" THEN f[u] ELSE 0]

\* ReturnedHandle without the wrap-around of the round-robin index
ReturnedHandle_NoWrap(conns, rr, h, last) ==
    LET k == StepsToHealthy(conns, rr, h)
    IN  IF k # 0 THEN rr + k + 1
        ELSE IF last # 0 THEN last
        ELSE 1

\* the handle (1-based) getConnection returns from conns
ReturnedHandle(conns, rr, h, last) ==
    LET k == StepsToHealthy(conns, rr, h)
    IN  IF k # 0 THEN ((rr + k) % Len(conns)) + 1
        ELSE IF last # 0 THEN last
        ELSE 1

\* getConnection(); primary is what credManager.getRpcUrl() supplies if the
\* pool still has to initialize itself
getConnection(primary) ==
    LET res == InitializeResult(primary, <<>>)
        conns == res.connections
        n == Len(conns)
        h == HealthForSelection(res.connectionHealth)
        f == FailedForSelection(res.connectionHealth, failedConnectionAttempts)
        k == StepsToHealthy(conns, roundRobinIndex, h)
        ret == ReturnedHandle(conns, roundRobinIndex, h, res.lastSuccessfulConnection)
    IN  /\ Len(conns) <= MaxConns
        /\ connections' = conns
        /\ lastSuccessfulConnection' = res.lastSuccessfulConnection
        /\ healthCheckInterval' = res.healthCheckInterval
        /\ isInitialized' = res.isInitialized
        /\ IF res.threw \/ n = 0
           THEN /\ connectionHealth' = res.connectionHealth
                /\ poolEvent' = [NoEvent EXCEPT !.op = "getConnection", !.threw = TRUE]
                /\ UNCHANGED <<roundRobinIndex, failedConnectionAttempts>>
           ELSE /\ connectionHealth' = h
                /\ failedConnectionAttempts' = f
                /\ roundRobinIndex' = (roundRobinIndex + k) % n
                /\ poolEvent' = [NoEvent EXCEPT !.op = "getConnection", !.ret = ret,
                                                !.url = IF ret \in 1..n THEN conns[ret]
                                                        ELSE InvalidUrl,
                                                !.reset = (h # res.connectionHealth)]
        /\ UNCHANGED <<rounds, probeFailStreak>>
        /\ UNCHANGED notPoolVars

GetConnection == \E primary \in Urls \cup {InvalidUrl} : getConnection(primary)

\* cleanup() leaving the timer armed
PoolCleanup_KeepsTimer ==
    /\ poolEvent' = [NoEvent EXCEPT !.op = "cleanup"]
    /\ UNCHANGED <<connections, roundRobinIndex, isInitialized,
                   failedConnectionAttempts, connectionHealth, healthCheckInterval,
                   lastSuccessfulConnection, rounds, probeFailStreak>>
    /\ UNCHANGED notPoolVars

\* cleanup(): the timer is cleared, rounds in flight run on
PoolCleanup ==
    /\ healthCheckInterval' = FALSE
    /\ poolEvent' = [NoEvent EXCEPT !.op = "cleanup"]
    /\ UNCHANGED <<connections, roundRobinIndex, isInitialized,
                   failedConnectionAttempts, connectionHealth,
                   lastSuccessfulConnection, rounds, probeFailStreak>>
    /\ UNCHANGED notPoolVars

PoolNext ==
    \/ Initialize
    \/ HealthCheckTick
    \/ ProbeResolves
    \/ ProbeRejects
    \/ GetConnection
    \/ PoolCleanup



(***************************************************************************)
(* BlockhashManager                                                        *)
(***************************************************************************)
REFRESH_INTERVAL == 20000
VALIDITY_THRESHOLD == 30000
MAX_RETRIES == 3
\* the instants the clock takes: a snapshot's age is below the refresh
\* interval, equal to it, or equal to the validity threshold
BhInstants == <<0, REFRESH_INTERVAL, VALIDITY_THRESHOLD,
                REFRESH_INTERVAL + VALIDITY_THRESHOLD>>
now == BhInstants[clock + 1]

RunIds == 1..MaxRuns
CallerIds == 1..MaxCallers

NullInfo == [blockhash |-> 0, lastValidBlockHeight |-> 0, timestamp |-> 0 - 1]
\* "GfSPV3WrqvEVuPAuGf5JYfecFiRCGR8MmAh5n1GT4ks8", lastValidBlockHeight 0
PlaceholderHash == 0
Placeholder(t) == [blockhash |-> PlaceholderHash, lastValidBlockHeight |-> 0,
                   timestamp |-> t]

NullPromise == [st |-> "null", run |-> 0, blockhash |-> 0, lastValidBlockHeight |-> 0]
PendingPromise(r) == [NullPromise EXCEPT !.st = "pending", !.run = r]
SettledPromise(v) == [st |-> "settled", run |-> 0, blockhash |-> v.blockhash,
                      lastValidBlockHeight |-> v.lastValidBlockHeight]

IdleRun == [st |-> "idle", kind |-> "none", attempt |-> 0, sample |-> 0]
\* updateBlockhash up to its first await: the request to the ledger is out
StartedRun(kind) == [st |-> "fetch", kind |-> kind, attempt |-> 0, sample |-> ledgerSlot]

IdleCaller == [pc |-> "idle", run |-> 0, owner |-> FALSE]
AwaitingCaller(r, owner) == [pc |-> "await", run |-> r, owner |-> owner]

\* a call made less than VALIDITY_THRESHOLD after the first successful fetch
CalledEarly == firstFetchAt >= 0 /\ now - firstFetchAt < VALIDITY_THRESHOLD

\* the branches on which getBlockhash returns without suspending
ImmediatePaths == {"noconn", "fresh", "settled"}

\* what getBlockhash calls hand to their callers in one step: n calls return
\* the same value v, reached on the branch path; early: the call was made,
\* and returned at once, less than VALIDITY_THRESHOLD after the first fetch
NoReturn == [n |-> 0, blockhash |-> 0, lastValidBlockHeight |-> 0, path |-> "none",
             early |-> FALSE]
Return(n, v, path) ==
    IF n = 0 THEN NoReturn
    ELSE [n |-> n, blockhash |-> v.blockhash,
          lastValidBlockHeight |-> v.lastValidBlockHeight, path |-> path,
          early |-> CalledEarly /\ path \in ImmediatePaths]

\* the hash of the first return of a call made early (0 - 1: none yet)
EarlyFirstAfter(ret) ==
    IF earlyFirst < 0 /\ ret.n > 0 /\ ret.early THEN ret.blockhash ELSE earlyFirst

BhInit ==
    /\ connection = FALSE
    /\ currentBlockhashInfo = NullInfo
    /\ updateInterval = FALSE
    /\ blockhashPromise = NullPromise
    /\ runs = [r \in RunIds |-> IdleRun]
    /\ callers = [c \in CallerIds |-> IdleCaller]
    /\ clock = 0
    /\ nextTick = 0
    /\ ledgerSlot = 1
    /\ bhReturn = NoReturn
    /\ firstFetchAt = 0 - 1
    /\ earlyFirst = 0 - 1
    /\ fetched = {}

FreeRuns(rs) == {r \in RunIds : rs[r].st = "idle"}
MinOf(S) == CHOOSE x \in S : \A y \in S : x <= y

\* Date.now() - currentBlockhashInfo.timestamp < VALIDITY_THRESHOLD
IsFresh(info, t) == info # NullInfo /\ t - info.timestamp < VALIDITY_THRESHOLD

\* initialize(connection): startBackgroundUpdate clears the old timer, starts
\* the initial update without awaiting it and sets the new timer
BhInitialize ==
    /\ FreeRuns(runs) # {}
    /\ LET r == MinOf(FreeRuns(runs))
       IN  /\ runs' = [runs EXCEPT ![r] = StartedRun("init")]
           /\ blockhashPromise' = PendingPromise(r)
    /\ connection' = TRUE
    /\ updateInterval' = TRUE
    /\ nextTick' = now + REFRESH_INTERVAL
    /\ bhReturn' = NoReturn
    /\ UNCHANGED <<currentBlockhashInfo, callers, clock, ledgerSlot,
                   firstFetchAt, earlyFirst, fetched>>
    /\ UNCHANGED notBhVars

\* whether the setInterval callback starts an update
TickStartsUpdate(bp) == bp.st = "null"

\* the setInterval callback
TimerTick ==
    /\ updateInterval
    /\ now >= nextTick
    /\ nextTick' = nextTick + REFRESH_INTERVAL
    /\ IF TickStartsUpdate(blockhashPromise)
       THEN /\ FreeRuns(runs) # {}
            /\ LET r == MinOf(FreeRuns(runs))
               IN  /\ runs' = [runs EXCEPT ![r] = StartedRun("tick")]
                   /\ blockhashPromise' = PendingPromise(r)
       ELSE UNCHANGED <<runs, blockhashPromise>>
    /\ bhReturn' = NoReturn
    /\ UNCHANGED <<connection, currentBlockhashInfo, updateInterval,
                   callers, clock, ledgerSlot, firstFetchAt, earlyFirst, fetched>>
    /\ UNCHANGED notBhVars

\* cleanup()
BhCleanup ==
    /\ updateInterval' = FALSE
    /\ nextTick' = 0
    /\ blockhashPromise' = NullPromise
    /\ bhReturn' = NoReturn
    /\ UNCHANGED <<connection, currentBlockhashInfo, runs, callers,
                   clock, ledgerSlot, firstFetchAt, earlyFirst, fetched>>
    /\ UNCHANGED notBhVars

\* time passes; an armed timer fires before time passes its due time
AdvanceClock ==
    /\ clock < MaxClock
    /\ updateInterval => now < nextTick
    /\ clock' = clock + 1
    /\ bhReturn' = NoReturn
    /\ UNCHANGED <<connection, currentBlockhashInfo, updateInterval,
                   blockhashPromise, runs, callers, nextTick,
                   ledgerSlot, firstFetchAt, earlyFirst, fetched>>
    /\ UNCHANGED notBhVars

\* the ledger issues a newer blockhash
LedgerAdvance ==
    /\ ledgerSlot < MaxSlot
    /\ ledgerSlot' = ledgerSlot + 1
    /\ bhReturn' = NoReturn
    /\ UNCHANGED <<connection, currentBlockhashInfo, updateInterval,
                   blockhashPromise, runs, callers, clock, nextTick,
                   firstFetchAt, earlyFirst, fetched>>
    /\ UNCHANGED notBhVars

RECURSIVE SetToSeq(_)
SetToSeq(S) == IF S = {} THEN <<>> ELSE <<MinOf(S)>> \o SetToSeq(S \ {MinOf(S)})

PositionIn(sq, x) == CHOOSE k \in 1..Len(sq) : sq[k] = x

\* callers suspended on the promise of run r
Awaiting(r) == {c \in CallerIds : callers[c].pc = "await" /\ callers[c].run = r}

\* CallPath consulting the promise before the age of the snapshot
CallPath_PromiseFirst(info, t, conn, bp) ==
    IF ~conn THEN "noconn"
    ELSE IF bp.st = "settled" THEN "settled"
    ELSE IF bp.st = "pending" THEN "wait"
    ELSE IF IsFresh(info, t) THEN "fresh"
    ELSE "fetch"

\* the branch of getBlockhash a call takes (lines 146-226)
CallPath(info, t, conn, bp) ==
    IF ~conn THEN "noconn"
    ELSE IF IsFresh(info, t) THEN "fresh"
    ELSE IF bp.st = "settled" THEN "settled"
    ELSE IF bp.st = "pending" THEN "wait"
    ELSE "fetch"

\* getBlockhash() up to its return or its first suspension
getBlockhash(c) ==
    LET path == CallPath(currentBlockhashInfo, now, connection, blockhashPromise)
        ret == CASE path = "noconn" ->
                      Return(1, IF currentBlockhashInfo # NullInfo
                                THEN currentBlockhashInfo ELSE Placeholder(now), path)
                 [] path = "fresh" -> Return(1, currentBlockhashInfo, path)
                 [] path = "settled" -> Return(1, blockhashPromise, path)
                 [] OTHER -> NoReturn
    IN  /\ callers[c].pc = "idle"
        /\ bhReturn' = ret
        /\ earlyFirst' = EarlyFirstAfter(ret)
        /\ CASE path = "wait" ->
                  /\ callers' = [callers EXCEPT ![c] =
                                    AwaitingCaller(blockhashPromise.run, FALSE)]
                  /\ UNCHANGED <<runs, blockhashPromise>>
             [] path = "fetch" ->
                  /\ FreeRuns(runs) # {}
                  /\ LET r == MinOf(FreeRuns(runs))
                     IN  /\ runs' = [runs EXCEPT ![r] = StartedRun("get")]
                         /\ blockhashPromise' = PendingPromise(r)
                         /\ callers' = [callers EXCEPT ![c] = AwaitingCaller(r, TRUE)]
             [] OTHER -> UNCHANGED <<callers, runs, blockhashPromise>>
        /\ UNCHANGED <<connection, currentBlockhashInfo, updateInterval,
                       clock, nextTick, ledgerSlot, firstFetchAt, fetched>>
        /\ UNCHANGED notBhVars

GetBlockhash == \E c \in CallerIds : getBlockhash(c)

\* blockhashPromise after the promise of run r settled: the initial update's
\* promise stays where it is, the timer's finally and the owner of a
\* getBlockhash request assign null
PromiseAfterSettle(r, v) ==
    IF runs[r].kind = "init"
    THEN IF blockhashPromise = PendingPromise(r) THEN SettledPromise(v)
         ELSE blockhashPromise
    ELSE NullPromise

\* the promise of run r fulfils with v: every caller suspended on it returns v
Fulfil(r, v, path) ==
    LET ret == Return(Cardinality(Awaiting(r)), v, path)
    IN  /\ blockhashPromise' = PromiseAfterSettle(r, v)
        /\ callers' = [c \in CallerIds |->
              IF c \in Awaiting(r) THEN IdleCaller ELSE callers[c]]
        /\ runs' = [runs EXCEPT ![r] = IdleRun]
        /\ bhReturn' = ret
        /\ earlyFirst' = EarlyFirstAfter(ret)

\* what a catch handler falls back to: the previous snapshot, else the
\* placeholder (lines 111-121, 187-192, 211-224)
CatchFallback(info, t) ==
    IF info # NullInfo THEN [path |-> "stale", value |-> info]
    ELSE [path |-> "placeholder", value |-> Placeholder(t)]

\* OwnerCatch rethrowing when there is no snapshot
OwnerCatch_Rethrow(info, t) ==
    IF info # NullInfo THEN [path |-> "stale", value |-> info]
    ELSE [path |-> "throw", value |-> NullInfo]

\* the catch of the getBlockhash call that started the request (lines 207-225)
OwnerCatch(info, t) == CatchFallback(info, t)

\* updateBlockhash rejects: the initial update's catch fulfils its promise
\* with the fallback; the timer's catch does so if a snapshot exists and
\* rethrows otherwise; then, with blockhashPromise set to null, the owner of a
\* request returns the fallback and every other caller suspended on the
\* promise returns the snapshot if there is one and starts a request of its
\* own if there is none
Reject(r) ==
    LET fb == CatchFallback(currentBlockhashInfo, now)
        fo == OwnerCatch(currentBlockhashInfo, now)
        have == currentBlockhashInfo # NullInfo
    IN  IF runs[r].kind = "init" \/ (runs[r].kind = "tick" /\ have)
        THEN Fulfil(r, fb.value, fb.path)
        ELSE LET owners == {c \in Awaiting(r) : callers[c].owner}
                 ws == IF have THEN <<>> ELSE SetToSeq(Awaiting(r) \ owners)
                 fs == SetToSeq(FreeRuns(runs) \cup {r})
                 newRun(c) == fs[PositionIn(ws, c)]
                 n == IF have THEN Cardinality(Awaiting(r)) ELSE Cardinality(owners)
                 ret == IF n = 0 THEN NoReturn
                        ELSE [Return(n, fo.value, fo.path) EXCEPT !.path = fo.path]
             IN  /\ Len(ws) <= Len(fs)
                 /\ runs' = [q \in RunIds |->
                       IF \E k \in 1..Len(ws) : fs[k] = q THEN StartedRun("get")
                       ELSE IF q = r THEN IdleRun ELSE runs[q]]
                 /\ blockhashPromise' =
                       IF Len(ws) = 0 THEN NullPromise ELSE PendingPromise(fs[Len(ws)])
                 /\ callers' = [c \in CallerIds |->
                       IF c \notin Awaiting(r) THEN callers[c]
                       ELSE IF callers[c].owner \/ have THEN IdleCaller
                       ELSE AwaitingCaller(newRun(c), TRUE)]
                 /\ bhReturn' = ret
                 /\ earlyFirst' = EarlyFirstAfter(ret)

\* updateBlockhash after its last attempt failed (lines 87-96) but returning
\* a placeholder instead of the previous snapshot
UpdateFailure_Fake(info, t) ==
    IF info # NullInfo THEN [rejected |-> FALSE, value |-> Placeholder(t)]
    ELSE [rejected |-> TRUE, value |-> NullInfo]

\* updateBlockhash after its last attempt failed (lines 87-96): the previous
\* snapshot if there is one, else it throws
UpdateFailure(info, t) ==
    IF info # NullInfo THEN [rejected |-> FALSE, value |-> info]
    ELSE [rejected |-> TRUE, value |-> NullInfo]

\* connection.getLatestBlockhash resolves inside updateBlockhash
FetchResolves ==
    \E r \in RunIds :
        /\ runs[r].st = "fetch"
        /\ LET info == [blockhash |-> runs[r].sample,
                        lastValidBlockHeight |-> runs[r].sample,
                        timestamp |-> now]
           IN  /\ currentBlockhashInfo' = info
               /\ Fulfil(r, info, "refreshed")
        /\ firstFetchAt' = IF firstFetchAt < 0 THEN now ELSE firstFetchAt
        /\ fetched' = fetched \cup {runs[r].sample}
        /\ UNCHANGED <<connection, updateInterval, clock, nextTick, ledgerSlot>>
        /\ UNCHANGED notBhVars

\* connection.getLatestBlockhash rejects with retries left
FetchRejectsRetry ==
    \E r \in RunIds :
        /\ runs[r].st = "fetch"
        /\ runs[r].attempt + 1 < MAX_RETRIES
        /\ runs' = [runs EXCEPT ![r].st = "delay", ![r].attempt = @ + 1,
                                ![r].sample = 0]
        /\ bhReturn' = NoReturn
        /\ UNCHANGED <<connection, currentBlockhashInfo, updateInterval,
                       blockhashPromise, callers, clock, nextTick,
                       ledgerSlot, firstFetchAt, earlyFirst, fetched>>
        /\ UNCHANGED notBhVars

\* the RETRY_DELAY timeout elapses: the next attempt is sent
RetryDelayElapses ==
    \E r \in RunIds :
        /\ runs[r].st = "delay"
        /\ runs' = [runs EXCEPT ![r].st = "fetch", ![r].sample = ledgerSlot]
        /\ bhReturn' = NoReturn
        /\ UNCHANGED <<connection, currentBlockhashInfo, updateInterval,
                       blockhashPromise, callers, clock, nextTick,
                       ledgerSlot, firstFetchAt, earlyFirst, fetched>>
        /\ UNCHANGED notBhVars

\* the last attempt rejects
FetchRejectsFinal ==
    \E r \in RunIds :
        /\ runs[r].st = "fetch"
        /\ runs[r].attempt + 1 >= MAX_RETRIES
        /\ LET out == UpdateFailure(currentBlockhashInfo, now)
           IN  IF out.rejected THEN Reject(r) ELSE Fulfil(r, out.value, "stale")
        /\ UNCHANGED <<connection, currentBlockhashInfo, updateInterval, clock,
                       nextTick, ledgerSlot, firstFetchAt, fetched>>
        /\ UNCHANGED notBhVars

BhNext ==
    \/ BhInitialize
    \/ TimerTick
    \/ BhCleanup
    \/ AdvanceClock
    \/ LedgerAdvance
    \/ GetBlockhash
    \/ FetchResolves
    \/ FetchRejectsRetry
    \/ RetryDelayElapses
    \/ FetchRejectsFinal

(***************************************************************************)
(* Venue discovery and the persistent venue cache                          *)
(***************************************************************************)
NATIVE_MINT == 1
Mints == 0..NumTokens
Tokens == Mints \ {NATIVE_MINT}
VenueIds == 1..MaxVenues

\* the tokens whose address ends with 'pump'
PumpSuffixed == {t \in Tokens : t > NATIVE_MINT}
VenueCallIds == 1..MaxVenueCalls

\* a venue state account of the ledger: its base and quote mint
NoVenue == [base |-> 0 - 1, quote |-> 0 - 1]

\* the address fields of PoolAccounts
KeyFields == {"ammId", "ammAuthority", "ammOpenOrders", "ammTargetOrders",
              "poolCoinTokenAccount", "poolPcTokenAccount", "serumProgramId",
              "serumMarket", "serumBids", "serumAsks", "serumEventQueue",
              "serumCoinVaultAccount", "serumPcVaultAccount",
              "serumVaultSigner"}

\* the fields that hold a program-wide address, the same for every venue
ProgramFields == {"ammAuthority", "serumProgramId"}

\* a public key: the venue it belongs to (0: program-wide), its role there,
\* and for a vault the mint it holds
NullAccounts ==
    [id |-> <<0 - 1, 0 - 1>>, keys |-> [f \in KeyFields |-> <<0, "none", 0 - 1>>]]

\* the PoolAccounts findPoolByMints composes from venue v (state d) and its
\* order-book market: id in the caller's order, everything else the venue's
PoolAccountsOf(v, d, baseMint, quoteMint) ==
    [id |-> <<baseMint, quoteMint>>,
     keys |-> [f \in KeyFields |->
        IF f \in ProgramFields THEN <<0, f, 0 - 1>>
        ELSE IF f = "poolCoinTokenAccount" THEN <<v, "vault", d.base>>
        ELSE IF f = "poolPcTokenAccount" THEN <<v, "vault", d.quote>>
        ELSE IF f = "serumCoinVaultAccount" THEN <<v, "marketVault", d.base>>
        ELSE IF f = "serumPcVaultAccount" THEN <<v, "marketVault", d.quote>>
        ELSE <<v, f, 0 - 1>>]]

\* PublicKey.toBase58 and new PublicKey(text)
toBase58(pk) == [b58 |-> pk]
PublicKey(text) == text.b58

\* the SerializedPoolAccounts that set stores
Serialized(accounts) ==
    [id |-> accounts.id, keys |-> [f \in KeyFields |-> toBase58(accounts.keys[f])]]

\* the PoolAccounts that get rebuilds
Deserialized(ser) ==
    [id |-> ser.id, keys |-> [f \in KeyFields |-> PublicKey(ser.keys[f])]]

\* the cache key of a pair: the two mint addresses sorted
SortedPair(a, b) == IF a <= b THEN <<a, b>> ELSE <<b, a>>
PoolKeys == {SortedPair(NATIVE_MINT, t) : t \in Tokens}

EmptyMap == [k \in {} |-> NullAccounts]

\* get(poolId)
PoolCacheGet(m, k) ==
    IF k \in DOMAIN m THEN [found |-> TRUE, value |-> Deserialized(m[k])]
    ELSE [found |-> FALSE, value |-> NullAccounts]

IdleVenueCall ==
    [pc |-> "idle", kind |-> "none", base |-> 0 - 1, quote |-> 0 - 1,
     found |-> 0, held |-> FALSE]

NoVenueEvent ==
    [op |-> "none", kind |-> "none", key |-> <<0 - 1, 0 - 1>>, ok |-> FALSE,
     err |-> "none", hit |-> FALSE, result |-> NullAccounts,
     held |-> FALSE]

VenueInit ==
    /\ ledgerVenues \in
          {[v \in VenueIds |-> IF v = 1 THEN d ELSE NoVenue] :
              d \in {NoVenue} \cup
                    {[base |-> NATIVE_MINT, quote |-> t] : t \in PumpSuffixed} \cup
                    {[base |-> t, quote |-> NATIVE_MINT] : t \in PumpSuffixed}}
    /\ poolCache = EmptyMap
    /\ poolsCacheFile = [exists |-> FALSE, data |-> EmptyMap]
    /\ venueCalls = [c \in VenueCallIds |-> IdleVenueCall]
    /\ venueEvent = NoVenueEvent
    /\ lastSet = EmptyMap

\* the venues a filtered scan for (base, quote) matches
Matching(ledger, base, quote) ==
    {v \in VenueIds : ledger[v].base = base /\ ledger[v].quote = quote}

\* the ledger holds a venue of the pair in one of the two orders
Holds(ledger, a, b) == Matching(ledger, a, b) \cup Matching(ledger, b, a) # {}

(***************************************************************************)
(* Token classification                                                    *)
(***************************************************************************)
maxAge == 86400000
\* the instants the classification clock takes: ages of 12h, 24h and 36h occur
TokenInstants == <<0, maxAge, maxAge + maxAge \div 2, 3 * maxAge>>
tokenNow == TokenInstants[tokenClock + 1]
TokenCallIds == 1..MaxTokenCalls

NoTokenInfo == [type |-> "none", timestamp |-> 0 - 1, hasRaydiumPool |-> FALSE]
EmptyTokenMap == [t \in {} |-> NoTokenInfo]
IdleTokenCall == [pc |-> "idle", kind |-> "none", token |-> 0 - 1]
NoTokenEvent ==
    [op |-> "none", token |-> 0 - 1, type |-> "none", cached |-> FALSE, n |-> 0,
     builder |-> "none"]

TokenInit ==
    /\ tokenCache = EmptyTokenMap
    /\ tokenTypesFile = [exists |-> FALSE, data |-> EmptyTokenMap]
    /\ pendingChecks = {}
    /\ bondingCurves = [t \in PumpSuffixed |-> "none"]
    /\ tokenClock = 0
    /\ tokenCalls = [c \in TokenCallIds |-> IdleTokenCall]
    /\ tokenEvent = NoTokenEvent
    /\ probedAt = [t \in PumpSuffixed |-> 0 - 1]

\* getTokenType returning an entry that is exactly maxAge old
getTokenType_Inclusive(m, t, time) ==
    IF t \in DOMAIN m /\ time - m[t].timestamp <= maxAge THEN m[t] ELSE NoTokenInfo

\* getTokenType(address): the entry if it is younger than maxAge
getTokenType(m, t, time) ==
    IF t \in DOMAIN m /\ time - m[t].timestamp < maxAge THEN m[t] ELSE NoTokenInfo

\* the map after setTokenType(address, type, hasRaydiumPool)
TokenCacheAfterSet(m, t, type, hasPool, time) ==
    [j \in DOMAIN m \cup {t} |->
        IF j = t THEN [type |-> type, timestamp |-> time, hasRaydiumPool |-> hasPool]
        ELSE m[j]]

\* setTokenType: the entry is stored and saveToDisk writes the map
setTokenType(t, type, hasPool) ==
    /\ tokenCache' = TokenCacheAfterSet(tokenCache, t, type, hasPool, tokenNow)
    /\ tokenTypesFile' =
           [exists |-> TRUE,
            data |-> TokenCacheAfterSet(tokenCache, t, type, hasPool, tokenNow)]

\* the requests that the result of a classification of token t answers: the
\* isPumpFunToken call c itself, or every checkTokenType call waiting for t
Answered(c, t) ==
    IF tokenCalls[c].kind = "check"
    THEN {d \in TokenCallIds : tokenCalls[d].kind = "check" /\ tokenCalls[d].token = t}
    ELSE {c}

\* what isPumpFunToken returns for a classification
TokenInfoOf_PumpIfMigrated(type) ==
    [isPump |-> type \in {"pump", "migratedPump"},
     hasMigrated |-> type = "migratedPump"]

TokenInfoOf(type) ==
    [isPump |-> type = "pump", hasMigrated |-> type = "migratedPump"]

\* the swap function a handler calls for the tokenInfo it got: the
\* bonding-curve one (swapSolToPumpToken, swapPumpTokenToSol) or the
\* constant-product one (swapSolToToken, swapTokenToSol)
HandlerBuilder(kind, tokenInfo) ==
    IF kind \notin {"buy", "sell"} THEN "none"
    ELSE IF tokenInfo.isPump THEN "pump"
    ELSE "regular"

\* a classification ends with the given type: the entry is stored (a live
\* bonding curve found by isPumpFunToken is not, a handler's call included),
\* the pending check is removed and the waiting requests return
Classified(c, type, hasPool) ==
    LET t == tokenCalls[c].token
        kind == tokenCalls[c].kind
    IN  /\ IF kind \in {"isPump", "buy", "sell"} /\ type = "pump"
           THEN UNCHANGED <<tokenCache, tokenTypesFile>>
           ELSE setTokenType(t, type, hasPool)
        /\ pendingChecks' = IF kind = "check" THEN pendingChecks \ {t} ELSE pendingChecks
        /\ tokenCalls' = [d \in TokenCallIds |->
                             IF d \in Answered(c, t) THEN IdleTokenCall ELSE tokenCalls[d]]
        /\ tokenEvent' = [op |-> kind, token |-> t, type |-> type, cached |-> FALSE,
                          n |-> Cardinality(Answered(c, t)),
                          builder |-> HandlerBuilder(kind, TokenInfoOf(type))]

\* a venue state account appears on the ledger
CreateVenue ==
    /\ \E v \in VenueIds, b \in Mints, q \in Mints :
          /\ b # q
          /\ NATIVE_MINT \in {b, q}
          /\ ledgerVenues[v] = NoVenue
          /\ \A w \in VenueIds : w < v => ledgerVenues[w] # NoVenue
          /\ ledgerVenues' = [ledgerVenues EXCEPT ![v] = [base |-> b, quote |-> q]]
    /\ venueEvent' = NoVenueEvent
    /\ UNCHANGED <<poolCache, poolsCacheFile, venueCalls, lastSet>>
    /\ UNCHANGED notVenueVars

\* a call entering findPoolByMints: its first scan is requested
ScanRequested(kind, baseMint, quoteMint) ==
    [pc |-> "scan1", kind |-> kind, base |-> baseMint, quote |-> quoteMint,
     found |-> 0, held |-> Holds(ledgerVenues, baseMint, quoteMint)]

\* discoverPool(connection, inputMint, outputMint) called on its own
discoverPool(c, inputMint, outputMint) ==
    /\ venueCalls[c].pc = "idle"
    /\ venueCalls' = [venueCalls EXCEPT
                         ![c] = ScanRequested("discover", inputMint, outputMint)]
    /\ venueEvent' = NoVenueEvent
    /\ UNCHANGED <<ledgerVenues, poolCache, poolsCacheFile, lastSet>>
    /\ UNCHANGED notVenueVars

DiscoverPool ==
    \E c \in VenueCallIds, a \in Mints, b \in Mints :
        /\ a # b
        /\ NATIVE_MINT \in {a, b}
        /\ discoverPool(c, a, b)

\* set replacing the map by the new entry alone
MapSet_Only(m, k, x) == [j \in {k} |-> x]

\* Map.set
MapSet(m, k, x) == [j \in DOMAIN m \cup {k} |-> IF j = k THEN x ELSE m[j]]

\* the map after set(poolId, accounts)
CacheAfterSet(k, accounts) == MapSet(poolCache, k, Serialized(accounts))

\* saveToDisk: the file becomes the whole map
saveToDisk(m) == [exists |-> TRUE, data |-> m]

\* set(poolId, accounts): the entry is stored and saveToDisk writes the map
SetEffect(k, accounts) ==
    /\ poolCache' = CacheAfterSet(k, accounts)
    /\ poolsCacheFile' = saveToDisk(CacheAfterSet(k, accounts))
    /\ lastSet' = [j \in DOMAIN lastSet \cup {k} |->
                      IF j = k THEN accounts ELSE lastSet[j]]

\* the venue lookup of a swap function (swapSolToToken, swapTokenToSol and
\* the handlers): the cached accounts, else discovery
swapPoolLookup(c, t) ==
    LET k == SortedPair(NATIVE_MINT, t)
        got == PoolCacheGet(poolCache, k)
    IN  /\ venueCalls[c].pc = "idle"
        /\ IF got.found
           THEN /\ venueCalls' = venueCalls
                /\ venueEvent' = [NoVenueEvent EXCEPT
                       !.op = "swap", !.kind = "swap", !.key = k, !.ok = TRUE,
                       !.hit = TRUE, !.result = got.value]
           ELSE /\ venueCalls' = [venueCalls EXCEPT
                       ![c] = ScanRequested("swap", NATIVE_MINT, t)]
                /\ venueEvent' = NoVenueEvent
        /\ UNCHANGED <<ledgerVenues, poolCache, poolsCacheFile, lastSet>>
        /\ UNCHANGED notVenueVars

SwapPoolLookup == \E c \in VenueCallIds, t \in Tokens : swapPoolLookup(c, t)

\* discoverPool called by performTokenTypeCheck or by a sell handler has
\* ended: the check ends with the given type, the handler stores a found
\* venue as 'migratedPump' and calls the swap function; other calls leave
\* the classification alone
CheckEnds(c, type, hasPool) ==
    IF venueCalls[c].kind \in {"check", "sell"}
    THEN LET d == CHOOSE d \in TokenCallIds :
                      /\ tokenCalls[d].pc = "discover"
                      /\ tokenCalls[d].kind = venueCalls[c].kind
                      /\ tokenCalls[d].token = venueCalls[c].quote
         IN  /\ Classified(d, type, hasPool /\ venueCalls[c].kind = "check")
             /\ UNCHANGED <<bondingCurves, tokenClock, probedAt>>
    ELSE UNCHANGED tokenVars

\* a call fails: the error reaches the caller of discoverPool, and
\* performTokenTypeCheck takes it as "no venue": a pure bonding-curve token
VenueCallFails(c, err) ==
    /\ venueCalls' = [venueCalls EXCEPT ![c] = IdleVenueCall]
    /\ venueEvent' = [NoVenueEvent EXCEPT
           !.op = "discovered", !.kind = venueCalls[c].kind,
           !.key = <<venueCalls[c].base, venueCalls[c].quote>>,
           !.err = err, !.held = venueCalls[c].held]
    /\ CheckEnds(c, "pump", FALSE)
    /\ UNCHANGED <<ledgerVenues, poolCache, poolsCacheFile, lastSet>>
    /\ UNCHANGED notCacheVars

\* the mints of the second scan, given those of the call
SecondScanMints_Same(baseMint, quoteMint) == <<baseMint, quoteMint>>

SecondScanMints(baseMint, quoteMint) == <<quoteMint, baseMint>>

\* a scan returns: its first account is taken; an empty first scan leads to
\* the second, an empty second scan to the no-pool error
ScanReturns ==
    \E c \in VenueCallIds :
        LET call == venueCalls[c]
            sm == SecondScanMints(call.base, call.quote)
            M == IF call.pc = "scan1"
                 THEN Matching(ledgerVenues, call.base, call.quote)
                 ELSE Matching(ledgerVenues, sm[1], sm[2])
        IN  /\ call.pc \in {"scan1", "scan2"}
            /\ IF M # {}
               THEN /\ \E v \in M :
                         venueCalls' = [venueCalls EXCEPT
                                           ![c].pc = "load", ![c].found = v]
                    /\ venueEvent' = NoVenueEvent
                    /\ UNCHANGED <<ledgerVenues, poolCache, poolsCacheFile, lastSet>>
                    /\ UNCHANGED notVenueVars
               ELSE IF call.pc = "scan1"
               THEN /\ venueCalls' = [venueCalls EXCEPT ![c].pc = "scan2"]
                    /\ venueEvent' = NoVenueEvent
                    /\ UNCHANGED <<ledgerVenues, poolCache, poolsCacheFile, lastSet>>
                    /\ UNCHANGED notVenueVars
               ELSE VenueCallFails(c, "no pool")

\* getProgramAccounts rejects
ScanRejects ==
    \E c \in VenueCallIds :
        /\ venueCalls[c].pc \in {"scan1", "scan2"}
        /\ VenueCallFails(c, "scan")

\* Market.load rejects: getPoolAccounts throws
MarketLoadRejects ==
    \E c \in VenueCallIds :
        /\ venueCalls[c].pc = "load"
        /\ VenueCallFails(c, "pool accounts")

\* the market loads: findPoolByMints returns; a swap function and
\* performTokenTypeCheck store the accounts under the sorted pair
MarketLoads ==
    \E c \in VenueCallIds :
        LET call == venueCalls[c]
            acc == PoolAccountsOf(call.found, ledgerVenues[call.found],
                                  call.base, call.quote)
            k == SortedPair(call.base, call.quote)
            ev == [NoVenueEvent EXCEPT
                      !.op = "discovered", !.kind = call.kind,
                      !.key = <<call.base, call.quote>>, !.ok = TRUE,
                      !.result = acc, !.held = call.held]
        IN  /\ call.pc = "load"
            /\ venueCalls' = [venueCalls EXCEPT ![c] = IdleVenueCall]
            /\ venueEvent' = ev
            /\ IF call.kind \in {"swap", "check", "sell"}
               THEN SetEffect(k, acc)
               ELSE UNCHANGED <<poolCache, poolsCacheFile, lastSet>>
            /\ CheckEnds(c, "migratedPump", TRUE)
            /\ UNCHANGED ledgerVenues
            /\ UNCHANGED notCacheVars

\* PersistentPoolCache.set called with the accounts of some venue
PoolCacheSetCall ==
    \E k \in PoolKeys, v \in VenueIds :
        LET acc == PoolAccountsOf(v, ledgerVenues[v], NATIVE_MINT,
                                  CHOOSE t \in Tokens : k = SortedPair(NATIVE_MINT, t))
        IN  /\ ledgerVenues[v] # NoVenue
            /\ SetEffect(k, acc)
            /\ venueEvent' = [NoVenueEvent EXCEPT
                   !.op = "set", !.key = k, !.ok = TRUE, !.result = acc]
            /\ UNCHANGED <<ledgerVenues, venueCalls>>
            /\ UNCHANGED notVenueVars

\* PersistentPoolCache.get called
PoolCacheGetCall ==
    \E k \in PoolKeys :
        LET got == PoolCacheGet(poolCache, k)
        IN  /\ venueEvent' = [NoVenueEvent EXCEPT
                   !.op = "get", !.key = k, !.ok = TRUE, !.hit = got.found,
                   !.result = got.value]
            /\ UNCHANGED <<ledgerVenues, poolCache, poolsCacheFile, venueCalls, lastSet>>
            /\ UNCHANGED notVenueVars

\* PersistentPoolCache.loadFromDisk
PoolCacheLoadFromDisk(file) == IF file.exists THEN file.data ELSE EmptyMap

\* TokenTypeCache.loadFromDisk: the entries of the file not older than maxAge
TokenCacheLoadFromDisk(file, time) ==
    IF file.exists
    THEN [t \in {j \in DOMAIN file.data : time - file.data[j].timestamp <= maxAge}
             |-> file.data[t]]
    ELSE EmptyTokenMap

\* the process starts again: both caches are constructed from their files,
\* and the token file is rewritten if stale entries were dropped
Restart ==
    /\ poolCache' = PoolCacheLoadFromDisk(poolsCacheFile)
    /\ venueCalls' = [c \in VenueCallIds |-> IdleVenueCall]
    /\ lastSet' = EmptyMap
    /\ venueEvent' = [NoVenueEvent EXCEPT !.op = "restart"]
    /\ tokenCache' = TokenCacheLoadFromDisk(tokenTypesFile, tokenNow)
    /\ tokenTypesFile' =
           IF tokenTypesFile.exists
              /\ DOMAIN TokenCacheLoadFromDisk(tokenTypesFile, tokenNow)
                     # DOMAIN tokenTypesFile.data
           THEN [exists |-> TRUE,
                 data |-> TokenCacheLoadFromDisk(tokenTypesFile, tokenNow)]
           ELSE tokenTypesFile
    /\ pendingChecks' = {}
    /\ tokenCalls' = [c \in TokenCallIds |-> IdleTokenCall]
    /\ tokenEvent' = NoTokenEvent
    /\ UNCHANGED <<ledgerVenues, poolsCacheFile, bondingCurves, tokenClock, probedAt>>
    /\ UNCHANGED notCacheVars

VenueNext ==
    \/ CreateVenue
    \/ DiscoverPool
    \/ SwapPoolLookup
    \/ ScanReturns
    \/ ScanRejects
    \/ MarketLoadRejects
    \/ MarketLoads
    \/ PoolCacheSetCall
    \/ PoolCacheGetCall
    \/ Restart

\* a request answered at once
TokenAnswer(kind, t, type, cached) ==
    [op |-> kind, token |-> t, type |-> type, cached |-> cached, n |-> 1,
     builder |-> HandlerBuilder(kind, TokenInfoOf(type))]

\* isPumpFunToken(connection, tokenAddress), called on its own or by a
\* handler (kind), up to its return or its getAccountInfo request
isPumpFunToken(kind, c, t) ==
    LET cachedInfo == getTokenType(tokenCache, t, tokenNow)
    IN  /\ tokenCalls[c].pc = "idle"
        /\ IF t \notin PumpSuffixed
           THEN /\ setTokenType(t, "regular", FALSE)
                /\ tokenEvent' = TokenAnswer(kind, t, "regular", FALSE)
                /\ UNCHANGED tokenCalls
           ELSE IF cachedInfo.type \in {"regular", "migratedPump"}
           THEN /\ tokenEvent' = TokenAnswer(kind, t, cachedInfo.type, TRUE)
                /\ UNCHANGED <<tokenCache, tokenTypesFile, tokenCalls>>
           ELSE /\ tokenCalls' = [tokenCalls EXCEPT
                       ![c] = [pc |-> "probe", kind |-> kind, token |-> t]]
                /\ tokenEvent' = NoTokenEvent
                /\ UNCHANGED <<tokenCache, tokenTypesFile>>
        /\ UNCHANGED <<pendingChecks, bondingCurves, tokenClock, probedAt>>
        /\ UNCHANGED <<venueVars, notCacheVars>>

IsPumpFunToken ==
    \E c \in TokenCallIds, t \in Tokens : isPumpFunToken("isPump", c, t)

\* handleBuy and handleBuyOperation: the token is classified by
\* isPumpFunToken and the swap function chosen from its answer
HandleBuy == \E c \in TokenCallIds, t \in Tokens : isPumpFunToken("buy", c, t)

\* what a sell handler takes from a cached entry: isPump stays false
SellCachedInfo(type) == [isPump |-> FALSE, hasMigrated |-> type = "migratedPump"]

\* handleSell: a cached entry decides at once, else isPumpFunToken is asked
handleSell(c, t) ==
    LET cachedInfo == getTokenType(tokenCache, t, tokenNow)
    IN  IF cachedInfo # NoTokenInfo
        THEN /\ tokenCalls[c].pc = "idle"
             /\ tokenEvent' =
                    [op |-> "sell", token |-> t, type |-> cachedInfo.type,
                     cached |-> TRUE, n |-> 1,
                     builder |-> HandlerBuilder("sell", SellCachedInfo(cachedInfo.type))]
             /\ UNCHANGED <<tokenCache, tokenTypesFile, pendingChecks, bondingCurves,
                            tokenClock, tokenCalls, probedAt>>
             /\ UNCHANGED <<venueVars, notCacheVars>>
        ELSE isPumpFunToken("sell", c, t)

HandleSell == \E c \in TokenCallIds, t \in Tokens : handleSell(c, t)

\* checkTokenType(connection, tokenAddress) up to its return or its first
\* suspension: the pending check, else the cache, else performTokenTypeCheck
checkTokenType(c, t) ==
    LET cached == getTokenType(tokenCache, t, tokenNow)
    IN  /\ tokenCalls[c].pc = "idle"
        /\ IF t \in pendingChecks
           THEN /\ tokenCalls' = [tokenCalls EXCEPT
                       ![c] = [pc |-> "joined", kind |-> "check", token |-> t]]
                /\ tokenEvent' = NoTokenEvent
                /\ UNCHANGED <<tokenCache, tokenTypesFile, pendingChecks>>
           ELSE IF cached # NoTokenInfo
           THEN /\ tokenEvent' = TokenAnswer("check", t, cached.type, TRUE)
                /\ UNCHANGED <<tokenCache, tokenTypesFile, pendingChecks, tokenCalls>>
           ELSE IF t \notin PumpSuffixed
           THEN /\ setTokenType(t, "regular", FALSE)
                /\ tokenEvent' = TokenAnswer("check", t, "regular", FALSE)
                /\ UNCHANGED <<pendingChecks, tokenCalls>>
           ELSE /\ tokenCalls' = [tokenCalls EXCEPT
                       ![c] = [pc |-> "probe", kind |-> "check", token |-> t]]
                /\ pendingChecks' = pendingChecks \cup {t}
                /\ tokenEvent' = NoTokenEvent
                /\ UNCHANGED <<tokenCache, tokenTypesFile>>
        /\ UNCHANGED <<bondingCurves, tokenClock, probedAt>>
        /\ UNCHANGED <<venueVars, notCacheVars>>

CheckTokenType == \E c \in TokenCallIds, t \in Tokens : checkTokenType(c, t)

\* getAccountInfo of the bonding-curve address returns: no account, or one
\* of another owner, is a regular token; else the curve data is read
CurveProbeReturns ==
    \E c \in TokenCallIds :
        LET t == tokenCalls[c].token
        IN  /\ tokenCalls[c].pc = "probe"
            /\ IF bondingCurves[t] \in {"none", "foreign"}
               THEN /\ Classified(c, "regular", FALSE)
                    /\ probedAt' = [probedAt EXCEPT ![t] = tokenNow]
               ELSE /\ tokenCalls' = [tokenCalls EXCEPT ![c].pc = "read"]
                    /\ tokenEvent' = NoTokenEvent
                    /\ UNCHANGED <<tokenCache, tokenTypesFile, pendingChecks, probedAt>>
            /\ UNCHANGED <<bondingCurves, tokenClock>>
            /\ UNCHANGED <<venueVars, notCacheVars>>

\* getAccountInfo or readBondingCurveAccount rejects: a regular token
CurveProbeRejects ==
    \E c \in TokenCallIds :
        /\ tokenCalls[c].pc \in {"probe", "read"}
        /\ Classified(c, "regular", FALSE)
        /\ UNCHANGED <<bondingCurves, tokenClock, probedAt>>
        /\ UNCHANGED <<venueVars, notCacheVars>>

\* what the curve data says of the token
CurveType(curve) ==
    IF curve = "completed" THEN "migratedPump"
    ELSE IF curve = "live" THEN "pump"
    ELSE "regular"

\* readBondingCurveAccount returns: completed is a migrated token, a zero
\* reserve a regular one; a live curve ends isPumpFunToken, and
\* performTokenTypeCheck and the sell handlers go on to look for a venue of
\* the token: a cached one, else discovery
CurveRead ==
    \E c \in TokenCallIds :
        LET t == tokenCalls[c].token
            type == CurveType(bondingCurves[t])
            k == SortedPair(NATIVE_MINT, t)
            free == {v \in VenueCallIds : venueCalls[v].pc = "idle"}
        IN  /\ tokenCalls[c].pc = "read"
            /\ probedAt' = [probedAt EXCEPT ![t] = tokenNow]
            /\ IF type = "pump" /\ tokenCalls[c].kind \in {"check", "sell"}
               THEN IF PoolCacheGet(poolCache, k).found
                    THEN /\ IF tokenCalls[c].kind = "check"
                            THEN Classified(c, "migratedPump", TRUE)
                            ELSE /\ tokenCalls' = [tokenCalls EXCEPT ![c] = IdleTokenCall]
                                 /\ tokenEvent' =
                                        [op |-> "sell", token |-> t, type |-> "pump",
                                         cached |-> FALSE, n |-> 1,
                                         builder |-> "regular"]
                                 /\ UNCHANGED <<tokenCache, tokenTypesFile,
                                                pendingChecks>>
                         /\ UNCHANGED venueVars
                    ELSE /\ free # {}
                         /\ venueCalls' = [venueCalls EXCEPT
                                ![CHOOSE v \in free : TRUE] =
                                    ScanRequested(tokenCalls[c].kind, NATIVE_MINT, t)]
                         /\ venueEvent' = NoVenueEvent
                         /\ tokenCalls' = [tokenCalls EXCEPT ![c].pc = "discover"]
                         /\ tokenEvent' = NoTokenEvent
                         /\ UNCHANGED <<tokenCache, tokenTypesFile, pendingChecks>>
                         /\ UNCHANGED <<ledgerVenues, poolCache, poolsCacheFile, lastSet>>
               ELSE /\ Classified(c, type, FALSE)
                    /\ UNCHANGED venueVars
            /\ UNCHANGED <<bondingCurves, tokenClock>>
            /\ UNCHANGED notCacheVars

\* the bonding curve of a token is created, completes or runs empty
CurveChanges ==
    /\ \E t \in PumpSuffixed, next \in {"foreign", "live", "completed", "empty"} :
          /\ \/ bondingCurves[t] = "none" /\ next \in {"foreign", "live"}
             \/ bondingCurves[t] = "live" /\ next \in {"completed", "empty"}
          /\ bondingCurves' = [bondingCurves EXCEPT ![t] = next]
    /\ tokenEvent' = NoTokenEvent
    /\ UNCHANGED <<tokenCache, tokenTypesFile, pendingChecks, tokenClock,
                   tokenCalls, probedAt>>
    /\ UNCHANGED <<venueVars, notCacheVars>>

\* half a day passes
TokenClockAdvance ==
    /\ tokenClock < MaxTokenClock
    /\ tokenClock' = tokenClock + 1
    /\ tokenEvent' = NoTokenEvent
    /\ UNCHANGED <<tokenCache, tokenTypesFile, pendingChecks, bondingCurves,
                   tokenCalls, probedAt>>
    /\ UNCHANGED <<venueVars, notCacheVars>>

TokenNext ==
    \/ IsPumpFunToken
    \/ CheckTokenType
    \/ CurveProbeReturns
    \/ CurveProbeRejects
    \/ CurveRead
    \/ CurveChanges
    \/ TokenClockAdvance
    \/ ScanReturns
    \/ ScanRejects
    \/ MarketLoadRejects
    \/ MarketLoads
    \/ Restart

(***************************************************************************)
(* Swap functions: priority fee and tip                                    *)
(***************************************************************************)
DEFAULT_PRIORITY_FEE == 100000
MinimumTip == 1000
TIP_CACHE_DURATION == 30000
SwapTimeStep == TIP_CACHE_DURATION \div 2
swapNow == swapClock * SwapTimeStep

\* SOL amounts are kept in tenths of a lamport, so that
\* Math.floor(x * LAMPORTS_PER_SOL) has something to drop
SolUnitsPerLamport == 10
ToLamports(sol) == sol \div SolUnitsPerLamport

SwapPaths == {"regularBuy", "regularSell", "pumpBuy", "pumpSell"}
SellPaths == {"regularSell", "pumpSell"}
\* percentageToSell
SellPercents == {50, 100}

\* the values a user configures, the estimates the RPC endpoint answers and
\* the percentiles the tip feed answers
FixedFees == {250000}
FixedTips == {5005, 200000}
Estimates == {0, 2000, 500000}
TipFeeds == {[p25 |-> 5005, p75 |-> 90009, p95 |-> 400000],
             [p25 |-> 20000, p75 |-> 300000, p95 |-> 1000000]}
NoTipInfo == [p25 |-> 0, p75 |-> 0, p95 |-> 0]

\* what the getPriorityFeeEstimate request comes back with: fetch rejects,
\* a non-OK status, a body json() rejects, a body with no estimate, or one
EstimatorResponses ==
    [kind : {"network", "notOk", "malformed", "empty"}, estimate : {0}]
        \cup [kind : {"ok"}, estimate : Estimates]

\* what the tip-floor request comes back with
FeedResponses ==
    [kind : {"network", "notOk", "badFormat"}, data : {NoTipInfo}]
        \cup [kind : {"ok"}, data : TipFeeds]

IdleSwap ==
    [pc |-> "idle", path |-> "none", auto |-> FALSE, fixed |-> 0,
     est |-> "none", requests |-> 0, fee |-> 0, aggr |-> "none",
     tipSource |-> "none", tipData |-> NoTipInfo, tipFixed |-> 0, tip |-> 0,
     err |-> "none", pre |-> 0, sell |-> 0, outcome |-> "none"]

SwapInit ==
    /\ feeSettings = [useAutomaticPriorityFee |-> TRUE, fixedPriorityFee |-> 0,
                      useAutomaticJitoTip |-> TRUE, fixedJitoTipAmount |-> 0,
                      jitoTipAggressiveness |-> "medium"]
    /\ cachedTipInfo = [data |-> NoTipInfo, timestamp |-> 0]
    /\ swapClock = 0
    /\ swapCall = IdleSwap
    /\ swapCount = 0

\* x || DEFAULT_PRIORITY_FEE
OrDefault(x) == IF x # 0 THEN x ELSE DEFAULT_PRIORITY_FEE

\* fixed mode: settings.fees.fixedPriorityFee || DEFAULT_PRIORITY_FEE
FixedPriorityFee_Default(fixed) == DEFAULT_PRIORITY_FEE

FixedPriorityFee(fixed) == OrDefault(fixed)

\* handlePriorityFeeSettings
HandlePriorityFeeSettings ==
    /\ \/ feeSettings' = [feeSettings EXCEPT
              !.useAutomaticPriorityFee = TRUE, !.fixedPriorityFee = 0]
       \/ \E f \in FixedFees :
              feeSettings' = [feeSettings EXCEPT
                  !.useAutomaticPriorityFee = FALSE, !.fixedPriorityFee = f]
    /\ UNCHANGED <<cachedTipInfo, swapClock, swapCall, swapCount>>
    /\ UNCHANGED notSwapVars

\* handleJitoTipSettings
HandleJitoTipSettings ==
    /\ \/ feeSettings' = [feeSettings EXCEPT
              !.useAutomaticJitoTip = TRUE, !.fixedJitoTipAmount = 0]
       \/ \E a \in FixedTips :
              feeSettings' = [feeSettings EXCEPT
                  !.useAutomaticJitoTip = FALSE, !.fixedJitoTipAmount = a]
    /\ UNCHANGED <<cachedTipInfo, swapClock, swapCall, swapCount>>
    /\ UNCHANGED notSwapVars

\* handleJitoAggressivenessSettings
HandleJitoAggressivenessSettings ==
    /\ \E a \in {"low", "medium", "high"} :
          feeSettings' = [feeSettings EXCEPT !.jitoTipAggressiveness = a]
    /\ UNCHANGED <<cachedTipInfo, swapClock, swapCall, swapCount>>
    /\ UNCHANGED notSwapVars

\* a swap function is called: it takes its copy of the settings; in
\* automatic mode the estimator request goes out, in fixed mode the fee is
\* the configured one
StartSwap ==
    \E path \in SwapPaths, pct \in SellPercents :
        LET amountToSell == IF path \in SellPaths
                            THEN (chainAccount.amount * pct) \div 100
                            ELSE 0
        IN
        /\ swapCall.pc \in {"idle", "done", "failed"}
        /\ swapCount < MaxSwaps
        /\ swapCount' = swapCount + 1
        /\ path \in SellPaths => chainAccount.exists /\ amountToSell > 0
        /\ swapCall' =
              IF feeSettings.useAutomaticPriorityFee
              THEN [IdleSwap EXCEPT !.pc = "estimator", !.path = path,
                                    !.auto = TRUE, !.requests = 1,
                                    !.pre = chainAccount.amount,
                                    !.sell = amountToSell]
              ELSE [IdleSwap EXCEPT !.pc = "tip", !.path = path,
                                    !.fixed = feeSettings.fixedPriorityFee,
                                    !.fee = FixedPriorityFee(feeSettings.fixedPriorityFee),
                                    !.pre = chainAccount.amount,
                                    !.sell = amountToSell]
        /\ UNCHANGED <<feeSettings, cachedTipInfo, swapClock>>
        /\ UNCHANGED notSwapVars

\* the priority fee of the path given the estimator's response: swapSolToToken
\* awaits fetch inside Promise.all with no catch around it, the other three
\* wrap the whole request in try/catch
PriorityFeeOf(path, resp) ==
    IF resp.kind = "network" /\ path = "regularBuy"
    THEN [failed |-> TRUE, fee |-> 0]
    ELSE IF resp.kind = "ok"
    THEN [failed |-> FALSE, fee |-> OrDefault(resp.estimate)]
    ELSE [failed |-> FALSE, fee |-> DEFAULT_PRIORITY_FEE]

\* the estimator request settles with resp
EstimatorSettles(resp) ==
    LET out == PriorityFeeOf(swapCall.path, resp)
    IN  /\ swapCall.pc = "estimator"
        /\ swapCall' =
              IF out.failed
              THEN [swapCall EXCEPT !.pc = "failed", !.est = resp.kind,
                                    !.err = "estimator"]
              ELSE [swapCall EXCEPT !.pc = "tip", !.est = resp.kind,
                                    !.fee = out.fee]
        /\ UNCHANGED <<feeSettings, cachedTipInfo, swapClock, swapCount>>
        /\ UNCHANGED notSwapVars

EstimatorResponds == \E resp \in EstimatorResponses : EstimatorSettles(resp)

\* the estimator answers with a non-OK status
EstimatorUnavailable == EstimatorSettles([kind |-> "notOk", estimate |-> 0])

\* Math.max
Max(a, b) == IF a >= b THEN a ELSE b

\* Math.floor(priorityFee * 0.3)
FeeShare(fee) == (fee * 3) \div 10

\* the percentile the aggressiveness selects, in lamports
PercentileTip(aggr, data) ==
    ToLamports(IF aggr = "low" THEN data.p25
               ELSE IF aggr = "high" THEN data.p95
               ELSE data.p75)

\* calculateOptimalJitoTip with the feed's data
OptimalTip_FixedFloor(fee, aggr, data) == MinimumTip

OptimalTip(fee, aggr, data) ==
    Max(Max(PercentileTip(aggr, data), MinimumTip), FeeShare(fee))

\* prepareJitoTip with a fixed amount configured
FixedTip(amount) == Max(ToLamports(amount), MinimumTip)

\* prepareJitoTip up to its return or the tip-floor request: the fixed
\* amount, else the cached percentiles while younger than
\* TIP_CACHE_DURATION, else the feed is asked
PrepareJitoTip ==
    /\ swapCall.pc = "tip"
    /\ swapCall' =
          IF ~feeSettings.useAutomaticJitoTip /\ feeSettings.fixedJitoTipAmount # 0
          THEN [swapCall EXCEPT
                   !.pc = "send", !.tipSource = "fixed",
                   !.tipFixed = feeSettings.fixedJitoTipAmount,
                   !.tip = FixedTip(feeSettings.fixedJitoTipAmount)]
          ELSE IF /\ cachedTipInfo.data # NoTipInfo
                  /\ swapNow - cachedTipInfo.timestamp < TIP_CACHE_DURATION
          THEN [swapCall EXCEPT
                   !.pc = "send", !.tipSource = "cache",
                   !.aggr = feeSettings.jitoTipAggressiveness,
                   !.tipData = cachedTipInfo.data,
                   !.tip = OptimalTip(swapCall.fee,
                                      feeSettings.jitoTipAggressiveness,
                                      cachedTipInfo.data)]
          ELSE [swapCall EXCEPT
                   !.pc = "feed", !.aggr = feeSettings.jitoTipAggressiveness]
    /\ UNCHANGED <<feeSettings, cachedTipInfo, swapClock, swapCount>>
    /\ UNCHANGED notSwapVars

\* the tip-floor request settles: the percentiles are cached and used, or
\* getJitoTipFloor returns null and the tip is the share of the fee
FeedSettles(resp) ==
    /\ swapCall.pc = "feed"
    /\ IF resp.kind = "ok"
       THEN /\ cachedTipInfo' = [data |-> resp.data, timestamp |-> swapNow]
            /\ swapCall' = [swapCall EXCEPT
                   !.pc = "send", !.tipSource = "feed", !.tipData = resp.data,
                   !.tip = OptimalTip(swapCall.fee, swapCall.aggr, resp.data)]
       ELSE /\ cachedTipInfo' = cachedTipInfo
            /\ swapCall' = [swapCall EXCEPT
                   !.pc = "send", !.tipSource = "nofeed",
                   !.tip = FeeShare(swapCall.fee)]
    /\ UNCHANGED <<feeSettings, swapClock, swapCount>>
    /\ UNCHANGED notSwapVars

FeedResponds == \E resp \in FeedResponses : FeedSettles(resp)

\* the tip-floor feed answers with a non-OK status
FeedUnavailable == FeedSettles([kind |-> "notOk", data |-> NoTipInfo])

\* half the lifetime of the cached percentiles passes
SwapClockAdvance ==
    /\ swapClock < MaxSwapClock
    /\ swapClock' = swapClock + 1
    /\ UNCHANGED <<feeSettings, cachedTipInfo, swapCall, swapCount>>
    /\ UNCHANGED notSwapVars

(***************************************************************************)
(* Quotes of the constant-product swaps                                    *)
(***************************************************************************)
\* amounts and vault balances in base units, and mint decimals
AmountsIn == {0, 1, 2, 5, 7, 10000, 30000, 10000000}
Reserves == {1, 2, 3}
TokenDecimals == {6, 9}
SOL_DECIMALS == 9

RECURSIVE Pow10(_)
Pow10(n) == IF n = 0 THEN 1 ELSE 10 * Pow10(n - 1)

NoQuote ==
    [fn |-> "none", amountIn |-> 0, inReserve |-> 0, outReserve |-> 0,
     decimals |-> 0, out |-> 0]


\* calculateExpectedOutput: BN arithmetic, div truncates
ExpectedOutput(amountIn, baseReserve, quoteReserve) ==
    LET k == baseReserve * quoteReserve
        newBaseReserve == baseReserve + amountIn
        newQuoteReserve == k \div newBaseReserve
    IN  quoteReserve - newQuoteReserve

\* calculateOutputAmount: the pool ratio with the decimal adjustment and the
\* shift by four digits, rounded down
OutputAmount(amountIn, poolCoinBalance, poolPcBalance, tokenDecimals) ==
    LET decimalAdjustment == Pow10(SOL_DECIMALS - tokenDecimals)
    IN  (amountIn * poolPcBalance)
            \div (poolCoinBalance * decimalAdjustment * Pow10(4))

CalculateExpectedOutput ==
    \E a \in AmountsIn, x \in Reserves, y \in Reserves :
        /\ quoteCall' = [fn |-> "calculateExpectedOutput", amountIn |-> a,
                         inReserve |-> x, outReserve |-> y, decimals |-> 0,
                         out |-> ExpectedOutput(a, x, y)]
        /\ UNCHANGED <<ixCall, errCall>>
        /\ UNCHANGED notFnVars

CalculateOutputAmount ==
    \E a \in AmountsIn, x \in Reserves, y \in Reserves, d \in TokenDecimals :
        /\ quoteCall' = [fn |-> "calculateOutputAmount", amountIn |-> a,
                         inReserve |-> x, outReserve |-> y, decimals |-> d,
                         out |-> OutputAmount(a, x, y, d)]
        /\ UNCHANGED <<ixCall, errCall>>
        /\ UNCHANGED notFnVars

(***************************************************************************)
(* Quotes of the bonding curve                                             *)
(***************************************************************************)
\* virtual reserves of the curve the quotes are taken against
QuoteReserves == {1, 3, 7, 100}
CoinData == [virtual_token_reserves : QuoteReserves, virtual_sol_reserves : QuoteReserves]

\* the quote of a purchase taken as what the output reserve loses when the
\* product of the reserves is kept
calculateExpectedTokenOutput_Remainder(amountIn, coinData) ==
    LET k == coinData.virtual_token_reserves * coinData.virtual_sol_reserves
    IN  coinData.virtual_token_reserves
            - (k \div (coinData.virtual_sol_reserves + amountIn))

\* calculateExpectedOutput of the bonding-curve swaps: tokens for amountIn
\* lamports (BN arithmetic, div truncates)
calculateExpectedTokenOutput(amountIn, coinData) ==
    LET numerator == coinData.virtual_token_reserves * amountIn
        denominator == coinData.virtual_sol_reserves + amountIn
    IN  numerator \div denominator

\* calculateExpectedSolOutput: lamports for amountIn tokens
calculateExpectedSolOutput(amountIn, coinData) ==
    LET numerator == coinData.virtual_sol_reserves * amountIn
        denominator == coinData.virtual_token_reserves + amountIn
    IN  numerator \div denominator

CalculateExpectedTokenOutput ==
    \E a \in AmountsIn, coinData \in CoinData :
        /\ quoteCall' = [fn |-> "pump.calculateExpectedOutput", amountIn |-> a,
                         inReserve |-> coinData.virtual_sol_reserves,
                         outReserve |-> coinData.virtual_token_reserves,
                         decimals |-> 0,
                         out |-> calculateExpectedTokenOutput(a, coinData)]
        /\ UNCHANGED <<ixCall, errCall>>
        /\ UNCHANGED notFnVars

CalculateExpectedSolOutput ==
    \E a \in AmountsIn, coinData \in CoinData :
        /\ quoteCall' = [fn |-> "pump.calculateExpectedSolOutput", amountIn |-> a,
                         inReserve |-> coinData.virtual_token_reserves,
                         outReserve |-> coinData.virtual_sol_reserves,
                         decimals |-> 0,
                         out |-> calculateExpectedSolOutput(a, coinData)]
        /\ UNCHANGED <<ixCall, errCall>>
        /\ UNCHANGED notFnVars

(***************************************************************************)
(* Instruction builders                                                    *)
(***************************************************************************)
\* a 64-bit amount is kept as its four 16-bit words, lowest first
ByteBase == 256
Zero64 == <<0, 0, 0, 0>>
Amounts64 ==
    {Zero64, <<1, 0, 0, 0>>, <<258, 0, 0, 0>>, <<0, 1, 0, 0>>,
     <<513, 1027, 1541, 2055>>, <<65535, 65535, 65535, 65535>>}

\* BN.toArray('le', 8) and BN.toArrayLike(Buffer, 'le', 8)
ToArrayBE(amount) ==
    [i \in 1..8 |->
        LET w == amount[4 - ((i - 1) \div 2)]
        IN  IF i % 2 = 1 THEN w \div ByteBase ELSE w % ByteBase]

ToArrayLE(amount) ==
    [i \in 1..8 |->
        LET w == amount[((i - 1) \div 2) + 1]
        IN  IF i % 2 = 1 THEN w % ByteBase ELSE w \div ByteBase]

\* sha256('global:buy') and sha256('global:sell'), first eight bytes
BUY_IX_DISCRIMINATOR == <<102, 6, 61, 18, 1, 218, 235, 234>>
SELL_IX_DISCRIMINATOR == <<51, 230, 133, 164, 1, 127, 131, 173>>
SwapBaseIn == 9

Wallets == {"wallet1", "wallet2"}
Builders == {"buildSwapInstruction", "buildPumpBuyInstruction",
             "buildPumpSellInstruction"}

\* the account keys of the constant-product instruction
SwapKeys(wallet) ==
    <<"TOKEN_PROGRAM_ID", "ammId", "ammAuthority", "ammOpenOrders",
      "ammTargetOrders", "poolCoinTokenAccount", "poolPcTokenAccount",
      "serumProgramId", "serumMarket", "serumBids", "serumAsks",
      "serumEventQueue", "serumCoinVaultAccount", "serumPcVaultAccount",
      "serumVaultSigner", "userSourceTokenAccount",
      "userDestinationTokenAccount", wallet>>

PumpBuyKeys(wallet) ==
    <<"GLOBAL", "FEE_RECIPIENT", "mint", "bonding_curve",
      "associated_bonding_curve", "tokenAccount", wallet,
      "SystemProgram", "TOKEN_PROGRAM_ID", "SYSVAR_RENT_PUBKEY",
      "PUMP_FUN_ACCOUNT", "PUMP_FUN_PROGRAM_ID">>

PumpSellKeys(wallet) ==
    <<"GLOBAL", "FEE_RECIPIENT", "mint", "bonding_curve",
      "associated_bonding_curve", "tokenAccount", wallet,
      "SystemProgram", "ASSOCIATED_TOKEN_PROGRAM_ID", "TOKEN_PROGRAM_ID",
      "PUMP_FUN_ACCOUNT", "PUMP_FUN_PROGRAM_ID">>

buildSwapInstruction(wallet, amountIn, minAmountOut) ==
    [programId |-> "RAYDIUM_V4_PROGRAM_ID",
     keys |-> SwapKeys(wallet),
     data |-> <<SwapBaseIn>> \o ToArrayLE(amountIn) \o ToArrayLE(minAmountOut)]

buildPumpBuyInstruction(wallet, expectedOutput, maxSolCost) ==
    [programId |-> "PUMP_FUN_PROGRAM_ID",
     keys |-> PumpBuyKeys(wallet),
     data |-> BUY_IX_DISCRIMINATOR \o ToArrayLE(expectedOutput)
                  \o ToArrayLE(maxSolCost)]

buildPumpSellInstruction(wallet, amount, minSolOutput) ==
    [programId |-> "PUMP_FUN_PROGRAM_ID",
     keys |-> PumpSellKeys(wallet),
     data |-> SELL_IX_DISCRIMINATOR \o ToArrayLE(amount)
                  \o ToArrayLE(minSolOutput)]

NoIx ==
    [builder |-> "none", wallet |-> "none", first |-> Zero64,
     second |-> Zero64,
     ix |-> [programId |-> "none", keys |-> <<>>, data |-> <<>>]]

BuildSwapInstruction ==
    \E w \in Wallets, a \in Amounts64, m \in Amounts64 :
        /\ ixCall' = [builder |-> "buildSwapInstruction", wallet |-> w,
                      first |-> a, second |-> m,
                      ix |-> buildSwapInstruction(w, a, m)]
        /\ UNCHANGED <<quoteCall, errCall>>
        /\ UNCHANGED notFnVars

BuildPumpBuyInstruction ==
    \E w \in Wallets, a \in Amounts64, m \in Amounts64 :
        /\ ixCall' = [builder |-> "buildPumpBuyInstruction", wallet |-> w,
                      first |-> a, second |-> m,
                      ix |-> buildPumpBuyInstruction(w, a, m)]
        /\ UNCHANGED <<quoteCall, errCall>>
        /\ UNCHANGED notFnVars

BuildPumpSellInstruction ==
    \E w \in Wallets, a \in Amounts64, m \in Amounts64 :
        /\ ixCall' = [builder |-> "buildPumpSellInstruction", wallet |-> w,
                      first |-> a, second |-> m,
                      ix |-> buildPumpSellInstruction(w, a, m)]
        /\ UNCHANGED <<quoteCall, errCall>>
        /\ UNCHANGED notFnVars

(***************************************************************************)
(* Submission, confirmation and the position tracker                       *)
(***************************************************************************)
DEBOUNCE == 5000
TrackerTimeStep == DEBOUNCE \div 2
trackerNow == trackerClock * TrackerTimeStep

HandlerIds == 1..MaxHandlers
\* token price in SOL as getCurrentTokenPrice returns it (0 when it fails),
\* tokens a confirmed buy delivers, SOL a buy spends
Prices == {0, 2}
BuyFills == {2}
SolIn == {3}

NoPosition == [present |-> FALSE, initialBuyAmount |-> 0, initialSolSpent |-> 0]
NoBalance ==
    [present |-> FALSE, currentTokens |-> 0, lastKnownTokens |-> 0,
     totalSold |-> 0, totalBought |-> 0, lastUpdated |-> 0]
IdleHandler == [pc |-> "idle", newBalance |-> 0]

TrackerInit ==
    /\ trackedPosition = NoPosition
    /\ currentBalance = NoBalance
    /\ subscribed = FALSE
    /\ chainAccount = [exists |-> FALSE, amount |-> 0]
    /\ notifs = 0
    /\ handlers = [h \in HandlerIds |-> IdleHandler]
    /\ trackerClock = 0
    /\ lastDeltaAt = -1
    /\ transfers = 0

\* initializeTokenMonitoring: with the token account on the ledger the
\* balance entry (a zero entry when there is none) takes the account's
\* amount and the subscription is set up; without the account nothing changes
initializeTokenMonitoring(balance, isSubscribed) ==
    IF chainAccount.exists
    THEN [balance |-> [balance EXCEPT
                          !.present = TRUE,
                          !.currentTokens = chainAccount.amount,
                          !.lastKnownTokens = chainAccount.amount,
                          !.lastUpdated = trackerNow],
          subscribed |-> TRUE]
    ELSE [balance |-> balance, subscribed |-> isSubscribed]

\* addPosition: an existing position only has its balance entry touched, a
\* new one is created from the arguments; then initializeTokenMonitoring
addPosition(solSpent, amount) ==
    LET position == IF trackedPosition.present
                    THEN trackedPosition
                    ELSE [present |-> TRUE, initialBuyAmount |-> amount,
                          initialSolSpent |-> solSpent]
        balance == IF trackedPosition.present
                   THEN IF currentBalance.present
                        THEN [currentBalance EXCEPT !.lastUpdated = trackerNow]
                        ELSE currentBalance
                   ELSE [present |-> TRUE, currentTokens |-> amount,
                         lastKnownTokens |-> amount, totalSold |-> 0,
                         totalBought |-> 0, lastUpdated |-> trackerNow]
        monitored == initializeTokenMonitoring(balance, subscribed)
    IN  [position |-> position, balance |-> monitored.balance,
         subscribed |-> monitored.subscribed]

\* sendJitoTransaction returns the signature; the locals that went into the
\* transaction are dead from here on
SendResolves ==
    /\ swapCall.pc = "send"
    /\ swapCall' = [IdleSwap EXCEPT !.pc = "confirm", !.path = swapCall.path,
                                    !.pre = swapCall.pre, !.sell = swapCall.sell]
    /\ UNCHANGED <<feeSettings, cachedTipInfo, swapClock, swapCount>>
    /\ UNCHANGED notSwapVars

\* sendJitoTransaction throws (fetch rejects, or 'error' in the reply)
SendRejects ==
    /\ swapCall.pc = "send"
    /\ swapCall' = [IdleSwap EXCEPT !.pc = "failed", !.path = swapCall.path,
                                    !.pre = swapCall.pre, !.sell = swapCall.sell,
                                    !.err = "submission",
                                    !.outcome = "submitError"]
    /\ UNCHANGED <<feeSettings, cachedTipInfo, swapClock, swapCount>>
    /\ UNCHANGED notSwapVars

\* the subscription's notification for a changed token account
Notified == IF subscribed /\ notifs < MaxNotifs THEN notifs + 1 ELSE notifs

\* confirmTransaction resolves: the transaction succeeded and moved the
\* tokens, or it was processed with an error (value.err, which the swap
\* functions do not read)
ConfirmResolves ==
    \E outcome \in {"ok", "chainError"}, fill \in BuyFills :
        /\ swapCall.pc = "confirm"
        /\ swapCall' = [swapCall EXCEPT !.pc = "record", !.outcome = outcome]
        /\ IF outcome = "ok"
           THEN IF swapCall.path \in SellPaths
                THEN /\ chainAccount' = [chainAccount EXCEPT
                                            !.amount = @ - swapCall.sell]
                     /\ notifs' = Notified
                ELSE /\ chainAccount.amount + fill <= MaxChainTokens
                     /\ chainAccount' = [exists |-> TRUE,
                                         amount |-> chainAccount.amount + fill]
                     /\ notifs' = Notified
           ELSE UNCHANGED <<chainAccount, notifs>>
        /\ UNCHANGED <<feeSettings, cachedTipInfo, swapClock, swapCount>>
        /\ UNCHANGED <<trackedPosition, currentBalance, subscribed, handlers,
                       trackerClock, lastDeltaAt, transfers>>
        /\ UNCHANGED notTradeVars

\* confirmTransaction throws (block height exceeded, timeout)
ConfirmRejects ==
    /\ swapCall.pc = "confirm"
    /\ swapCall' = [swapCall EXCEPT !.pc = "failed", !.err = "confirmation",
                                     !.outcome = "timeout"]
    /\ UNCHANGED <<feeSettings, cachedTipInfo, swapClock, swapCount>>
    /\ UNCHANGED notSwapVars

\* the tokens the buy reads as received
TokensReceived ==
    (IF chainAccount.exists THEN chainAccount.amount ELSE 0) - swapCall.pre

\* what each swap function does after confirmTransaction returned:
\* swapSolToToken reads the destination account (throwing without it) and
\* calls addPosition; the bonding-curve swaps call addPosition inside a
\* try/catch, the sell with negated amounts; swapTokenToSol records nothing
RecordPosition ==
    \E solSpent \in SolIn, price \in Prices \ {0} :
        LET path == swapCall.path
            solReceived == IF swapCall.outcome = "ok"
                           THEN swapCall.sell * price ELSE 0
            added == IF path = "pumpSell"
                     THEN addPosition(-solReceived, -swapCall.sell)
                     ELSE addPosition(solSpent, TokensReceived)
            throws == path = "regularBuy" /\ ~chainAccount.exists
            records == path # "regularSell" /\ ~throws
        IN  /\ swapCall.pc = "record"
            /\ swapCall' =
                  IF throws
                  THEN [swapCall EXCEPT !.pc = "failed", !.err = "postSwap"]
                  ELSE [swapCall EXCEPT
                           !.pc = IF path \in SellPaths THEN "refresh"
                                  ELSE "done"]
            /\ trackedPosition' = IF records THEN added.position
                                  ELSE trackedPosition
            /\ currentBalance' = IF records THEN added.balance
                                 ELSE currentBalance
            /\ subscribed' = IF records THEN added.subscribed ELSE subscribed
            /\ UNCHANGED <<feeSettings, cachedTipInfo, swapClock, swapCount>>
            /\ UNCHANGED <<chainAccount, notifs, handlers, trackerClock,
                           lastDeltaAt, transfers>>
            /\ UNCHANGED notTradeVars

\* updatePortfolioAfterSell: handleConfirmedSellTransaction starts the
\* monitoring of the token and refreshPosition, for a tracked token, runs
\* initializeTokenMonitoring again; errors are swallowed
UpdatePortfolioAfterSell ==
    LET monitored == initializeTokenMonitoring(currentBalance, subscribed)
    IN  /\ swapCall.pc = "refresh"
        /\ swapCall' = [swapCall EXCEPT !.pc = "done"]
        /\ currentBalance' = monitored.balance
        /\ subscribed' = monitored.subscribed
        /\ UNCHANGED <<feeSettings, cachedTipInfo, swapClock, swapCount>>
        /\ UNCHANGED <<trackedPosition, chainAccount, notifs, handlers,
                       trackerClock, lastDeltaAt, transfers>>
        /\ UNCHANGED notTradeVars

\* a transaction of another sender moves one token into or out of the
\* wallet's token account
ExternalTransfer ==
    \E d \in {-1, 1} :
        /\ chainAccount.exists
        /\ transfers < MaxTransfers
        /\ transfers' = transfers + 1
        /\ chainAccount.amount + d \in 0..MaxChainTokens
        /\ chainAccount' = [chainAccount EXCEPT !.amount = @ + d]
        /\ notifs' = Notified
        /\ UNCHANGED <<trackedPosition, currentBalance, subscribed, handlers,
                       trackerClock, lastDeltaAt>>
        /\ UNCHANGED notTrackerVars

\* an account-change notification is delivered: the callback starts
NotificationArrives ==
    \E h \in HandlerIds :
        /\ notifs > 0
        /\ handlers[h].pc = "idle"
        /\ \A g \in HandlerIds : g < h => handlers[g].pc # "idle"
        /\ notifs' = notifs - 1
        /\ handlers' = [handlers EXCEPT ![h] = [pc |-> "fetch", newBalance |-> 0]]
        /\ UNCHANGED <<trackedPosition, currentBalance, subscribed,
                       chainAccount, trackerClock, lastDeltaAt, transfers>>
        /\ UNCHANGED notTrackerVars

\* the callback's getTokenAccount returns the account's amount at this
\* moment (the price request follows)
HandlerFetches ==
    \E h \in HandlerIds :
        /\ handlers[h].pc = "fetch"
        /\ handlers' = [handlers EXCEPT
               ![h] = IF chainAccount.exists
                      THEN [pc |-> "handle", newBalance |-> chainAccount.amount]
                      ELSE IdleHandler]
        /\ UNCHANGED <<trackedPosition, currentBalance, subscribed,
                       chainAccount, notifs, trackerClock, lastDeltaAt, transfers>>
        /\ UNCHANGED notTrackerVars

\* the end of handleBalanceChange: the new balance becomes the known one
Settled(balance, newBalance) ==
    [balance EXCEPT !.currentTokens = newBalance,
                    !.lastKnownTokens = newBalance,
                    !.lastUpdated = trackerNow]

\* handleBalanceChange up to its first await or its return
HandleBalanceChange ==
    \E h \in HandlerIds, currentPrice \in Prices :
        LET newBalance == handlers[h].newBalance
            balanceDiff == newBalance - currentBalance.lastKnownTokens
            soldValue == (0 - balanceDiff) * currentPrice
            boughtValue == balanceDiff * currentPrice
            ignored == \/ ~currentBalance.present
                       \/ ~trackedPosition.present
                       \/ newBalance = currentBalance.currentTokens
                       \/ trackerNow - currentBalance.lastUpdated < DEBOUNCE
        IN  /\ handlers[h].pc = "handle"
            /\ IF ignored
               THEN /\ handlers' = [handlers EXCEPT ![h] = IdleHandler]
                    /\ UNCHANGED <<currentBalance, lastDeltaAt>>
               ELSE IF balanceDiff < 0 /\ soldValue > 0
               THEN /\ currentBalance' = [currentBalance EXCEPT
                                             !.totalSold = @ + soldValue]
                    /\ lastDeltaAt' = trackerNow
                    /\ handlers' = [handlers EXCEPT ![h].pc = "notify"]
               ELSE IF balanceDiff > 0
               THEN /\ currentBalance' =
                          Settled([currentBalance EXCEPT
                                      !.totalBought = @ + boughtValue],
                                  newBalance)
                    /\ lastDeltaAt' = IF boughtValue > 0 THEN trackerNow
                                      ELSE lastDeltaAt
                    /\ handlers' = [handlers EXCEPT ![h] = IdleHandler]
               ELSE /\ currentBalance' = Settled(currentBalance, newBalance)
                    /\ lastDeltaAt' = lastDeltaAt
                    /\ handlers' = [handlers EXCEPT ![h] = IdleHandler]
            /\ UNCHANGED <<trackedPosition, subscribed, chainAccount, notifs,
                           trackerClock, transfers>>
            /\ UNCHANGED notTrackerVars

\* the sell branch resumes after getPosition and the Discord export and
\* stores the new balance
HandlerFinishes ==
    \E h \in HandlerIds :
        /\ handlers[h].pc = "notify"
        /\ currentBalance' = Settled(currentBalance, handlers[h].newBalance)
        /\ handlers' = [handlers EXCEPT ![h] = IdleHandler]
        /\ UNCHANGED <<trackedPosition, subscribed, chainAccount, notifs,
                       trackerClock, lastDeltaAt, transfers>>
        /\ UNCHANGED notTrackerVars

\* half a debounce window passes
TrackerClockAdvance ==
    /\ trackerClock < MaxTrackerClock
    /\ trackerClock' = trackerClock + 1
    /\ UNCHANGED <<trackedPosition, currentBalance, subscribed, chainAccount,
                   notifs, handlers, lastDeltaAt, transfers>>
    /\ UNCHANGED notTrackerVars

\* getPosition's netProfitSol at a price
NetProfitSol(currentPrice) ==
    (currentBalance.currentTokens * currentPrice + currentBalance.totalSold)
        - (trackedPosition.initialSolSpent + currentBalance.totalBought)

(***************************************************************************)
(* Error normalisation of the swap operations                              *)
(***************************************************************************)
\* an error message is the sequence of its phrases; message.includes(key)
\* holds when the key is one of them
Includes(message, key) == \E i \in 1..Len(message) : message[i] = key

\* messages the swap functions and their providers throw
RawMessages ==
    {<<"No liquidity pool found">>,
     <<"Error:", "insufficient funds", "for rent">>,
     <<"Transaction simulation failed", "custom program error:", "0x1">>,
     <<"custom program error:", "0x28">>,
     <<"custom program error:", "6002">>,
     <<"TooLittleSolReceived">>,
     <<"BondingCurveComplete">>,
     <<"NoTokenBalance">>,
     <<"blockhash not found">>,
     <<"Jito API error">>,
     <<"Calculated sell amount is too small">>}

\* the table of formatError in index.ts, in its order
errorMessages ==
    <<[key |-> "No liquidity pool found",
       value |-> <<"No liquidity pool exists for this token pair">>],
      [key |-> "insufficient funds",
       value |-> <<"Insufficient funds for swap">>],
      [key |-> "exceeds desired slippage limit",
       value |-> <<"Price impact too high. Try increasing slippage tolerance or reducing amount">>],
      [key |-> "0x1",
       value |-> <<"Transaction failed - check token contract and pool status">>],
      [key |-> "TooLittleSolReceived",
       value |-> <<"Price impact too high. Try reducing amount or increasing slippage tolerance">>],
      [key |-> "BondingCurveComplete",
       value |-> <<"This token has already migrated to Raydium">>]>>

\* the chain of tests of formatError in pumpSwap.ts
pumpErrorMessages ==
    <<errorMessages[1], errorMessages[2], errorMessages[3], errorMessages[4],
      [key |-> "TooLittleSolReceived",
       value |-> <<"Price impact too high. Try reducing the amount or increasing slippage tolerance">>],
      errorMessages[6],
      [key |-> "NoTokenBalance",
       value |-> <<"No tokens found in your account">>]>>

\* formatError: the value of the first key the message includes, else the
\* error itself
RECURSIVE FormatWith(_, _, _)
FormatWith(table, i, message) ==
    IF i > Len(table) THEN message
    ELSE IF Includes(message, table[i].key) THEN table[i].value
    ELSE FormatWith(table, i + 1, message)

formatError(table, message) == FormatWith(table, 1, message)

OpMaxRetries == 3
MAX_RETRY == 2

RetryableMessages ==
    {"exceeded", "blockhash not found", "Transaction simulation failed",
     "Socket hang up"}
PumpRetryableMessages == {"6002", "Too much SOL required"}

SwapOperations ==
    {"handleBuyOperation", "handleSellOperation", "swapSolToPumpToken",
     "swapPumpTokenToSol"}

NoErrCall ==
    [op |-> "none", inner |-> "none", isError |-> TRUE, raw |-> <<>>,
     attempts |-> 0, pc |-> "idle", thrown |-> <<>>]

FnInit ==
    /\ quoteCall = NoQuote
    /\ ixCall = NoIx
    /\ errCall = NoErrCall

\* what the swap function inside handleBuyOperation throws for a failure
\* with the message: swapSolToPumpToken has formatted it, swapSolToToken not
InnerThrown(inner, message) ==
    IF inner = "pump" THEN formatError(pumpErrorMessages, message) ELSE message

\* a swap operation is called
OperationStarts ==
    \E op \in SwapOperations, inner \in {"pump", "regular"} :
        /\ errCall.pc \in {"idle", "thrown"}
        /\ op = "handleBuyOperation" \/ inner = (IF op = "handleSellOperation"
                                                 THEN "regular" ELSE "pump")
        /\ errCall' = [NoErrCall EXCEPT !.op = op, !.inner = inner,
                                        !.pc = "running"]
        /\ UNCHANGED <<quoteCall, ixCall>>
        /\ UNCHANGED notFnVars

\* an attempt of the operation fails with the message (or, for the two
\* handlers, with a thrown value that is no Error): the operation retries
\* or throws
AttemptFails ==
    \E message \in RawMessages, isError \in BOOLEAN :
        LET op == errCall.op
            caught == IF op = "handleBuyOperation"
                      THEN InnerThrown(errCall.inner, message)
                      ELSE message
            retries ==
                IF op = "handleBuyOperation"
                THEN /\ errCall.attempts + 1 < OpMaxRetries
                     /\ (~isError \/ \E m \in RetryableMessages : Includes(caught, m))
                ELSE IF op = "handleSellOperation" THEN FALSE
                ELSE /\ errCall.attempts < MAX_RETRY - 1
                     /\ \E m \in PumpRetryableMessages : Includes(caught, m)
            thrown ==
                IF op = "handleBuyOperation"
                THEN IF isError THEN formatError(errorMessages, caught)
                     ELSE <<"Unknown error occurred during buy operation">>
                ELSE IF op = "handleSellOperation"
                THEN IF isError THEN formatError(errorMessages, caught)
                     ELSE <<"Failed to sell token: Unknown error">>
                ELSE formatError(pumpErrorMessages, caught)
        IN  /\ errCall.pc = "running"
            /\ isError \/ op \in {"handleBuyOperation", "handleSellOperation"}
            /\ errCall' =
                  IF retries
                  THEN [errCall EXCEPT !.attempts = @ + 1]
                  ELSE [errCall EXCEPT !.attempts = @ + 1, !.pc = "thrown",
                                       !.raw = message, !.isError = isError,
                                       !.thrown = thrown]
            /\ UNCHANGED <<quoteCall, ixCall>>
            /\ UNCHANGED notFnVars

(***************************************************************************)
(* PortfolioTracker over several tokens: initialization, per-token         *)
(* monitoring, cleanup and the positions file                              *)
(* (src/utils/positions/portfolioTracker.ts)                               *)
(***************************************************************************)
\* amounts a token account may hold
Held == 0..MaxHeld
\* a quotient of two numbers as JavaScript computes it: finite when the
\* divisor is not 0, Infinity or NaN otherwise
Quotient(a, b) == [num |-> a, den |-> b]
IsFinite(q) == q.den # 0
\* what addPosition is called with: tokens received with the price the
\* caller computed, or no tokens received and no price
PositionArgs ==
    {[amount |-> 2, override |-> [given |-> TRUE, price |-> Quotient(5, 2)]],
     [amount |-> 0, override |-> [given |-> FALSE, price |-> Quotient(0, 1)]]}

NoTracked ==
    [present |-> FALSE, initialBuyAmount |-> 0, initialSolSpent |-> 0,
     entryPrice |-> Quotient(0, 1)]
\* a balance entry; its lastUpdated is not kept here: whether the debounce
\* window has passed since then is open at every notification
NoEntry ==
    [present |-> FALSE, currentTokens |-> 0, lastKnownTokens |-> 0,
     totalSold |-> 0, totalBought |-> 0]
NoAccount == [exists |-> FALSE, amount |-> 0]
NoFile == [t \in Tokens |-> [position |-> NoTracked, balanceInfo |-> NoEntry]]
IdleMonCall ==
    [op |-> "none", pc |-> "idle", token |-> 0, solSpent |-> 0, amount |-> 0,
     override |-> [given |-> FALSE, price |-> Quotient(0, 1)], todo |-> <<>>,
     cause |-> "none", failedToken |-> 0 - 1, pending |-> {}]

\* operations whose caller sees what initializeBalanceMonitoring or
\* initializeTokenMonitoring throws; refreshPosition and getPosition catch it
Propagating == {"addPosition", "startMonitoring", "initializeBalanceMonitoring"}

MonitorInit ==
    /\ trackedPositions = [t \in Tokens |-> NoTracked]
    /\ currentBalances = [t \in Tokens |-> NoEntry]
    /\ accountSubscriptions = [t \in Tokens |-> FALSE]
    /\ listeners = [t \in Tokens |-> FALSE]
    /\ trackerInitialized = FALSE
    /\ initializationPromise = "null"
    /\ positionsFile = NoFile
    /\ tokenAccounts = [t \in Tokens |-> NoAccount]
    /\ accountNotified = [t \in Tokens |-> FALSE]
    /\ monCall = IdleMonCall
    /\ accountChanges = 0
    /\ restarts = 0

\* savePositions: every tracked position with its balance entry
savePositions(positions, balances) ==
    [t \in Tokens |->
        IF positions[t].present
        THEN [position |-> positions[t], balanceInfo |-> balances[t]]
        ELSE [position |-> NoTracked, balanceInfo |-> NoEntry]]

\* JSON.stringify writes a number that is not finite as null, and
\* Number(null) is 0
NumberOfJson(q) == IF IsFinite(q) THEN q ELSE Quotient(0, 1)

\* loadPositions: the positions and balance entries of the file
LoadedPositions(file) ==
    [t \in Tokens |->
        IF file[t].position.present
        THEN [file[t].position EXCEPT
                 !.entryPrice = NumberOfJson(file[t].position.entryPrice)]
        ELSE NoTracked]
LoadedBalances(file) == [t \in Tokens |-> file[t].balanceInfo]

\* the entry after the read when the difference to the balance last known
\* is booked as a sale or a purchase
BalanceRead_Booked(balance, amount) ==
    [balance EXCEPT !.present = TRUE, !.currentTokens = amount,
                    !.lastKnownTokens = amount,
                    !.totalSold = IF amount < balance.lastKnownTokens
                                  THEN @ + (balance.lastKnownTokens - amount)
                                  ELSE @,
                    !.totalBought = IF amount > balance.lastKnownTokens
                                    THEN @ + (amount - balance.lastKnownTokens)
                                    ELSE @]

\* the entry a balance map holds after the account's amount was read
BalanceRead(balance, amount) ==
    [balance EXCEPT !.present = TRUE, !.currentTokens = amount,
                    !.lastKnownTokens = amount]

\* the position addPosition stores
PositionAfterAdd_Reprice(existing, solSpent, amount, override) ==
    [present |-> TRUE,
     initialBuyAmount |-> amount,
     initialSolSpent |-> solSpent,
     entryPrice |-> IF override.given THEN override.price
                    ELSE Quotient(solSpent, amount)]
PositionAfterAdd(existing, solSpent, amount, override) ==
    IF existing.present
    THEN existing
    ELSE [present |-> TRUE,
          initialBuyAmount |-> amount,
          initialSolSpent |-> solSpent,
          entryPrice |-> IF override.given THEN override.price
                         ELSE Quotient(solSpent, amount)]

\* the balance entry addPosition stores (an existing one only has its
\* lastUpdated touched)
BalanceAfterAdd(existing, balance, amount) ==
    IF existing.present
    THEN balance
    ELSE [present |-> TRUE, currentTokens |-> amount, lastKnownTokens |-> amount,
          totalSold |-> 0, totalBought |-> 0]

CallEnded == monCall.pc \in {"idle", "done", "threw"}

\* where an operation goes when initializeBalanceMonitoring has returned
AfterInitialization(op) ==
    CASE op = "addPosition" -> "body"
      [] op = "startMonitoring" -> "tokmon"
      [] OTHER -> "done"

\* a public operation of the tracker is called (one call runs at a time)
TrackerCall ==
    \E op \in {"addPosition", "startMonitoring", "initializeBalanceMonitoring",
               "refreshPosition"},
       t \in Tokens, args \in PositionArgs, solSpent \in SolIn :
        LET call == [IdleMonCall EXCEPT
                        !.op = op,
                        !.token = IF op = "initializeBalanceMonitoring" THEN 0 ELSE t,
                        !.amount = IF op = "addPosition" THEN args.amount ELSE 0,
                        !.solSpent = IF op = "addPosition" THEN solSpent ELSE 0,
                        !.override = IF op = "addPosition" THEN args.override
                                     ELSE IdleMonCall.override]
            initializes == op # "refreshPosition" /\ ~trackerInitialized
        IN  /\ CallEnded
            /\ monCall' = [call EXCEPT !.pc =
                   IF initializes THEN "scan"
                   ELSE IF op = "refreshPosition"
                   THEN IF trackedPositions[t].present THEN "tokmon" ELSE "done"
                   ELSE AfterInitialization(op)]
            /\ initializationPromise' =
                   IF initializes THEN "pending" ELSE initializationPromise
            /\ UNCHANGED <<trackedPositions, currentBalances, accountSubscriptions,
                           listeners, trackerInitialized, positionsFile,
                           tokenAccounts, accountNotified, accountChanges, restarts>>
            /\ UNCHANGED notMonVars

\* the tokens fetchInitialBalances returns with their balances, in the
\* order the provider lists the wallet's accounts
InitialBalances(order) ==
    SelectSeq([k \in 1..Len(order) |->
                  [token |-> order[k], balance |-> tokenAccounts[order[k]].amount]],
              LAMBDA e : trackedPositions[e.token].present
                         /\ tokenAccounts[e.token].exists)
TokenOrders == {s \in [1..Cardinality(Tokens) -> Tokens] :
                   \A i, j \in DOMAIN s : i # j => s[i] # s[j]}

\* what the failure of an initialization does to the call: the promise is
\* reset and the error thrown, which refreshPosition's getPosition catches
InitializationThrows(cause, t) ==
    IF monCall.op \in Propagating
    THEN [monCall EXCEPT !.pc = "threw", !.cause = cause, !.failedToken = t]
    ELSE [monCall EXCEPT !.pc = "done", !.cause = cause, !.failedToken = t]

\* fetchInitialBalances returns
WalletScanResolves ==
    \E order \in TokenOrders :
        /\ monCall.pc = "scan"
        /\ monCall' = [monCall EXCEPT !.pc = "loop", !.todo = InitialBalances(order),
                          !.pending = {InitialBalances(order)[k].token :
                                          k \in 1..Len(InitialBalances(order))}]
        /\ UNCHANGED <<trackedPositions, currentBalances, accountSubscriptions,
                       listeners, trackerInitialized, initializationPromise,
                       positionsFile, tokenAccounts, accountNotified,
                       accountChanges, restarts>>
        /\ UNCHANGED notMonVars

\* getParsedTokenAccountsByOwner rejects
WalletScanRejects ==
    /\ monCall.pc = "scan"
    /\ monCall' = InitializationThrows("walletScan", 0 - 1)
    /\ initializationPromise' = "null"
    /\ UNCHANGED <<trackedPositions, currentBalances, accountSubscriptions,
                   listeners, trackerInitialized, positionsFile, tokenAccounts,
                   accountNotified, accountChanges, restarts>>
    /\ UNCHANGED notMonVars

\* one turn of doInitializeBalanceMonitoring's loop: setupAccountMonitoring
\* removes the token's earlier subscription (which may reject) and subscribes,
\* then the balance entry takes the balance fetchInitialBalances read
SetupInLoop ==
    \E removed \in BOOLEAN :
        LET e == Head(monCall.todo)
            t == e.token
        IN  /\ monCall.pc = "loop"
            /\ monCall.todo # <<>>
            /\ accountSubscriptions[t] \/ removed
            /\ IF removed
               THEN /\ monCall' = [monCall EXCEPT !.todo = Tail(@),
                                                  !.pending = @ \ {t}]
                    /\ accountSubscriptions' = [accountSubscriptions EXCEPT ![t] = TRUE]
                    /\ listeners' = [listeners EXCEPT ![t] = TRUE]
                    /\ currentBalances' = [currentBalances EXCEPT
                           ![t] = BalanceRead(@, e.balance)]
                    /\ UNCHANGED initializationPromise
               ELSE /\ monCall' = InitializationThrows("removeListener", t)
                    /\ initializationPromise' = "null"
                    /\ UNCHANGED <<accountSubscriptions, listeners, currentBalances>>
            /\ UNCHANGED <<trackedPositions, trackerInitialized, positionsFile,
                           tokenAccounts, accountNotified, accountChanges, restarts>>
            /\ UNCHANGED notMonVars

\* the loop is over: the positions are saved and the tracker is initialized
InitializationEnds ==
    /\ monCall.pc = "loop"
    /\ monCall.todo = <<>>
    /\ positionsFile' = savePositions(trackedPositions, currentBalances)
    /\ trackerInitialized' = TRUE
    /\ initializationPromise' = "fulfilled"
    /\ monCall' = [monCall EXCEPT !.pc = AfterInitialization(monCall.op),
                                  !.pending = {}]
    /\ UNCHANGED <<trackedPositions, currentBalances, accountSubscriptions,
                   listeners, tokenAccounts, accountNotified, accountChanges,
                   restarts>>
    /\ UNCHANGED notMonVars

\* addPosition between its two awaits: the maps are updated and saved
AddPositionBody ==
    LET t == monCall.token
        position == PositionAfterAdd(trackedPositions[t], monCall.solSpent,
                                     monCall.amount, monCall.override)
        balance == BalanceAfterAdd(trackedPositions[t], currentBalances[t],
                                   monCall.amount)
    IN  /\ monCall.pc = "body"
        /\ trackedPositions' = [trackedPositions EXCEPT ![t] = position]
        /\ currentBalances' = [currentBalances EXCEPT ![t] = balance]
        /\ positionsFile' = savePositions(trackedPositions', currentBalances')
        /\ monCall' = [monCall EXCEPT !.pc = "tokmon", !.solSpent = 0,
                                      !.amount = 0,
                                      !.override = IdleMonCall.override]
        /\ UNCHANGED <<accountSubscriptions, listeners, trackerInitialized,
                       initializationPromise, tokenAccounts, accountNotified,
                       accountChanges, restarts>>
        /\ UNCHANGED notMonVars

\* initializeTokenMonitoring of the call's token.  The mint's account info may
\* fail to come (outer catch: logged and thrown again); the token account may
\* be missing or its read may fail (inner catch: skipped); with the account
\* read the balance entry is updated and setupAccountMonitoring runs inside
\* the inner try, so that a rejected removal is skipped as well.
\* refreshPosition catches what is thrown and goes on to getPosition, which
\* initializes the tracker when that has not happened.
TokenMonitoring ==
    \E outcome \in {"mintInfoFails", "accountReadFails", "removeFails", "ok"} :
        LET t == monCall.token
            read == outcome \in {"removeFails", "ok"}
            subscribes == outcome = "ok"
            next == IF monCall.op = "refreshPosition"
                    THEN IF trackerInitialized THEN "done" ELSE "scan"
                    ELSE "done"
        IN  /\ monCall.pc = "tokmon"
            /\ read => tokenAccounts[t].exists
            /\ outcome = "removeFails" => accountSubscriptions[t]
            /\ monCall' =
                  IF outcome = "mintInfoFails" /\ monCall.op \in Propagating
                  THEN [monCall EXCEPT !.pc = "threw", !.cause = "mintInfo",
                                       !.failedToken = t]
                  ELSE [monCall EXCEPT !.pc = next]
            /\ initializationPromise' =
                  IF monCall'.pc = "scan" THEN "pending" ELSE initializationPromise
            /\ currentBalances' =
                  IF read
                  THEN [currentBalances EXCEPT
                           ![t] = BalanceRead(@, tokenAccounts[t].amount)]
                  ELSE currentBalances
            /\ accountSubscriptions' =
                  IF subscribes THEN [accountSubscriptions EXCEPT ![t] = TRUE]
                  ELSE accountSubscriptions
            /\ listeners' = IF subscribes THEN [listeners EXCEPT ![t] = TRUE]
                            ELSE listeners
            /\ UNCHANGED <<trackedPositions, trackerInitialized, positionsFile,
                           tokenAccounts, accountNotified, accountChanges, restarts>>
            /\ UNCHANGED notMonVars

\* cleanup: every subscription is removed, a removal that rejects is logged
\* and leaves its listener on the connection; the map is cleared and the
\* positions are saved
TrackerCleanup ==
    \E kept \in SUBSET Tokens :
        /\ CallEnded
        /\ \A t \in kept : accountSubscriptions[t]
        /\ listeners' = [t \in Tokens |->
                            IF accountSubscriptions[t] THEN t \in kept
                            ELSE listeners[t]]
        /\ accountSubscriptions' = [t \in Tokens |-> FALSE]
        /\ positionsFile' = savePositions(trackedPositions, currentBalances)
        /\ monCall' = [IdleMonCall EXCEPT !.op = "cleanup", !.pc = "done"]
        /\ UNCHANGED <<trackedPositions, currentBalances, trackerInitialized,
                       initializationPromise, tokenAccounts, accountNotified,
                       accountChanges, restarts>>
        /\ UNCHANGED notMonVars

\* a transaction creates the wallet's account of a token or changes its
\* amount; a live listener is notified
AccountChanges ==
    \E t \in Tokens, amount \in Held :
        /\ accountChanges < MaxAccountChanges
        /\ tokenAccounts[t] # [exists |-> TRUE, amount |-> amount]
        /\ tokenAccounts' = [tokenAccounts EXCEPT
                                ![t] = [exists |-> TRUE, amount |-> amount]]
        /\ accountNotified' = [accountNotified EXCEPT ![t] = @ \/ listeners[t]]
        /\ accountChanges' = accountChanges + 1
        /\ UNCHANGED <<trackedPositions, currentBalances, accountSubscriptions,
                       listeners, trackerInitialized, initializationPromise,
                       positionsFile, monCall, restarts>>
        /\ UNCHANGED notMonVars

\* handleBalanceChange from its entry to its end; debounced says that the
\* entry was updated less than 5 s ago
BalanceAfterChange(balance, tracked, newBalance, currentPrice, debounced) ==
    LET balanceDiff == newBalance - balance.lastKnownTokens
        soldValue == (0 - balanceDiff) * currentPrice
        boughtValue == balanceDiff * currentPrice
        known == [balance EXCEPT !.currentTokens = newBalance,
                                 !.lastKnownTokens = newBalance]
    IN  IF \/ ~balance.present
           \/ ~tracked
           \/ newBalance = balance.currentTokens
           \/ debounced
        THEN balance
        ELSE IF balanceDiff < 0
        THEN [known EXCEPT !.totalSold = IF soldValue > 0 THEN @ + soldValue ELSE @]
        ELSE IF balanceDiff > 0
        THEN [known EXCEPT !.totalBought = @ + boughtValue]
        ELSE known

\* the subscription's callback: the account is read, the price looked up
\* (0 when that fails) and handleBalanceChange run; whatever is thrown is
\* caught in the callback
AccountChangeCallback ==
    \E t \in Tokens, readOk \in BOOLEAN, currentPrice \in Prices,
       debounced \in BOOLEAN :
        LET changed == BalanceAfterChange(currentBalances[t],
                           trackedPositions[t].present,
                           tokenAccounts[t].amount, currentPrice, debounced)
        IN  /\ accountNotified[t]
            /\ accountNotified' = [accountNotified EXCEPT ![t] = FALSE]
            /\ currentBalances' =
                  IF readOk THEN [currentBalances EXCEPT ![t] = changed]
                  ELSE currentBalances
            /\ positionsFile' =
                  IF readOk /\ changed # currentBalances[t]
                  THEN savePositions(trackedPositions, currentBalances')
                  ELSE positionsFile
            /\ UNCHANGED <<trackedPositions, accountSubscriptions, listeners,
                           trackerInitialized, initializationPromise,
                           tokenAccounts, monCall, accountChanges, restarts>>
            /\ UNCHANGED notMonVars

\* the process ends and starts again: the constructor loads the positions
\* file; subscriptions, listeners and the call in progress are gone
TrackerRestart ==
    /\ CallEnded
    /\ restarts < MaxRestarts
    /\ restarts' = restarts + 1
    /\ trackedPositions' = LoadedPositions(positionsFile)
    /\ currentBalances' = LoadedBalances(positionsFile)
    /\ accountSubscriptions' = [t \in Tokens |-> FALSE]
    /\ listeners' = [t \in Tokens |-> FALSE]
    /\ accountNotified' = [t \in Tokens |-> FALSE]
    /\ trackerInitialized' = FALSE
    /\ initializationPromise' = "null"
    /\ monCall' = IdleMonCall
    /\ UNCHANGED <<positionsFile, tokenAccounts, accountChanges>>
    /\ UNCHANGED notMonVars

(***************************************************************************)
(* The bonding-curve swaps and the state of the curve                      *)
(* (swapSolToPumpToken, swapPumpTokenToSol in src/utils/swaps/pumpSwap.ts) *)
(***************************************************************************)
\* virtual reserves a bonding-curve account holds
CurveReserves == {0, 1, 5}
\* what readBondingCurveAccount returns
CurveStates ==
    [virtual_token_reserves : CurveReserves, virtual_sol_reserves : CurveReserves,
     completed : BOOLEAN]
NoCurve == [virtual_token_reserves |-> 0, virtual_sol_reserves |-> 0,
            completed |-> FALSE]
PumpSwaps == {"swapSolToPumpToken", "swapPumpTokenToSol"}
\* amounts the wallet's token account holds when a sale reads it (0 - 1: no
\* account)
SellBalances == {0 - 1, 0, 1, 4}

IdlePumpCall ==
    [op |-> "none", pc |-> "idle", attempts |-> 0, curve |-> NoCurve,
     read |-> FALSE, built |-> "none", amount |-> 0, thrown |-> <<>>]

PumpInit == pumpCall = IdlePumpCall

\* validateBondingCurveState without the test of the completed flag
validateBondingCurveState_ReservesOnly(coinData) ==
    IF coinData.virtual_token_reserves <= 0
    THEN <<"Virtual token reserves must be greater than 0">>
    ELSE IF coinData.virtual_sol_reserves <= 0
    THEN <<"Virtual SOL reserves must be greater than 0">>
    ELSE <<>>

\* validateBondingCurveState: the message of the error it throws, <<>> when
\* it returns
validateBondingCurveState(coinData) ==
    IF coinData.completed
    THEN <<"Token has already migrated from pump.fun">>
    ELSE IF coinData.virtual_token_reserves <= 0
    THEN <<"Virtual token reserves must be greater than 0">>
    ELSE IF coinData.virtual_sol_reserves <= 0
    THEN <<"Virtual SOL reserves must be greater than 0">>
    ELSE <<>>

\* a bonding-curve swap is called with valid arguments: its first attempt
\* sends its reads
PumpSwapStarts ==
    \E op \in PumpSwaps :
        /\ pumpCall.pc \in {"idle", "returned", "thrown"}
        /\ pumpCall' = [IdlePumpCall EXCEPT !.op = op, !.pc = "read"]
        /\ UNCHANGED notCurveVars

\* the catch of an attempt: a slippage failure is tried once more, anything
\* else is formatted and thrown
AttemptCaught(message) ==
    IF (\E m \in PumpRetryableMessages : Includes(message, m))
       /\ pumpCall.attempts < MAX_RETRY - 1
    THEN [IdlePumpCall EXCEPT !.op = pumpCall.op, !.pc = "read",
                              !.attempts = pumpCall.attempts + 1]
    ELSE [pumpCall EXCEPT !.pc = "thrown",
                          !.thrown = formatError(pumpErrorMessages, message)]

\* the reads of an attempt return (Promise.all): the bonding-curve account
\* and, for a sale, the wallet's token account
AttemptReads ==
    \E curve \in CurveStates, balance \in SellBalances :
        /\ pumpCall.pc = "read"
        /\ pumpCall' = [pumpCall EXCEPT
               !.pc = "validate", !.curve = curve, !.read = TRUE,
               !.amount = IF pumpCall.op = "swapPumpTokenToSol" THEN balance ELSE 0]
        /\ UNCHANGED notCurveVars

\* one of the reads rejects, or the bonding-curve account does not exist
AttemptReadFails ==
    /\ pumpCall.pc = "read"
    /\ pumpCall' = AttemptCaught(<<"BondingCurve account not found">>)
    /\ UNCHANGED notCurveVars

\* from the reads to the built instruction: validateBondingCurveState, for a
\* sale the tests of the token account and of the amount, then the fee, the
\* tip and buildPumpBuyInstruction or buildPumpSellInstruction
AttemptBuilds ==
    LET invalid == validateBondingCurveState(pumpCall.curve)
        sale == pumpCall.op = "swapPumpTokenToSol"
    IN  /\ pumpCall.pc = "validate"
        /\ pumpCall' =
              IF invalid # <<>> THEN AttemptCaught(invalid)
              ELSE IF sale /\ pumpCall.amount < 0
              THEN AttemptCaught(<<"No token account found or insufficient balance">>)
              ELSE IF sale /\ pumpCall.amount = 0
              THEN AttemptCaught(<<"Calculated sell amount is too small">>)
              ELSE [pumpCall EXCEPT
                       !.pc = "submit",
                       !.built = IF sale THEN "buildPumpSellInstruction"
                                 ELSE "buildPumpBuyInstruction"]
        /\ UNCHANGED notCurveVars

\* the transaction is sent and confirmed, and the function returns
AttemptSucceeds ==
    /\ pumpCall.pc = "submit"
    /\ pumpCall' = [pumpCall EXCEPT !.pc = "returned"]
    /\ UNCHANGED notCurveVars

\* sending or confirming throws
AttemptSubmitFails ==
    \E message \in {<<"custom program error", "6002">>, <<"Transaction expired">>} :
        /\ pumpCall.pc = "submit"
        /\ pumpCall' = AttemptCaught(message)
        /\ UNCHANGED notCurveVars

(***************************************************************************)
(* A swap request: the handler, its swap function and their retries        *)
(***************************************************************************)
RETRY_DELAY == 1000
PumpRetryDelay == 1000

\* the handler and the swap function it calls; "none" is a direct call
SwapRequests ==
    {<<"handleBuyOperation", "swapSolToPumpToken">>,
     <<"handleBuyOperation", "swapSolToToken">>,
     <<"handleSellOperation", "swapTokenToSol">>,
     <<"none", "swapSolToPumpToken">>,
     <<"none", "swapPumpTokenToSol">>}
PumpFunctions == {"swapSolToPumpToken", "swapPumpTokenToSol"}

\* what the providers throw: the relay on a send, the ledger client on a
\* confirmation, on a read after it, and the tracker's subscription setup
SendFailures ==
    {<<"Jito API error", "custom program error", "6002">>,
     <<"Socket hang up">>,
     <<"Error:", "insufficient funds", "for rent">>}
ConfirmFailures == {<<"block height", "exceeded">>}
ReadFailures == {<<"Socket hang up">>, <<"TokenAccountNotFoundError">>}

IdleOp ==
    [handler |-> "none", fn |-> "none", pc |-> "idle", retryCount |-> 0,
     attempts |-> 0, sends |-> 0, confirmed |-> 0, handOff |-> "none",
     retriedOn |-> <<>>, delay |-> 0, thrown |-> <<>>]

OpInit == swapOp = IdleOp

\* a request is made
SwapRequested ==
    \E req \in SwapRequests :
        /\ swapOp.pc \in {"idle", "returned", "thrown"}
        /\ swapOp' = [IdleOp EXCEPT !.handler = req[1], !.fn = req[2],
                                    !.pc = "attempt",
                                    !.retryCount = OpMaxRetries]
        /\ UNCHANGED notOpVars

\* the handler's catch of what its swap function threw: handleBuyOperation
\* waits and calls the function again for a message of its list while it has
\* retries left, and otherwise throws the formatted error, as
\* handleSellOperation always does; a direct caller gets the error as thrown
HandlerCaught(op, thrown) ==
    IF op.handler = "handleBuyOperation"
       /\ (\E m \in RetryableMessages : Includes(thrown, m))
       /\ op.retryCount > 1
    THEN [op EXCEPT !.pc = "backoff", !.retryCount = @ - 1, !.attempts = 0,
                    !.handOff = "none", !.retriedOn = thrown,
                    !.delay = RETRY_DELAY]
    ELSE [op EXCEPT !.pc = "thrown",
                    !.thrown = IF op.handler = "none" THEN thrown
                               ELSE formatError(errorMessages, thrown)]

\* an error inside an attempt: the bonding-curve functions catch it, wait
\* and go round their loop for a slippage message on the first attempt, and
\* otherwise throw it formatted; the regular functions have no catch
AttemptThrows(op, message) ==
    IF op.fn \in PumpFunctions
    THEN IF (\E m \in PumpRetryableMessages : Includes(message, m))
            /\ op.attempts < MAX_RETRY - 1
         THEN [op EXCEPT !.pc = "backoff", !.attempts = @ + 1,
                         !.handOff = "none", !.retriedOn = message,
                         !.delay = PumpRetryDelay]
         ELSE HandlerCaught(op, formatError(pumpErrorMessages, message))
    ELSE HandlerCaught(op, message)

\* the wait before the next attempt ends
BackoffElapses ==
    /\ swapOp.pc = "backoff"
    /\ swapOp' = [swapOp EXCEPT !.pc = "attempt"]
    /\ UNCHANGED notOpVars

\* sendJitoTransaction is called with the signed transaction and returns
\* the signature
SendReturns ==
    /\ swapOp.pc = "attempt"
    /\ swapOp' = [swapOp EXCEPT !.pc = "submitted", !.sends = @ + 1]
    /\ UNCHANGED notOpVars

\* sendJitoTransaction is called and throws
SendThrows ==
    \E message \in SendFailures :
        /\ swapOp.pc = "attempt"
        /\ swapOp' = AttemptThrows([swapOp EXCEPT !.sends = @ + 1], message)
        /\ UNCHANGED notOpVars

\* confirmTransaction returns
TransactionConfirmed ==
    /\ swapOp.pc = "submitted"
    /\ swapOp' = [swapOp EXCEPT
                     !.pc = IF swapOp.fn = "swapTokenToSol" THEN "returned"
                            ELSE "confirmed",
                     !.confirmed = @ + 1]
    /\ UNCHANGED notOpVars

\* confirmTransaction throws
ConfirmationThrows ==
    \E message \in ConfirmFailures :
        /\ swapOp.pc = "submitted"
        /\ swapOp' = AttemptThrows(swapOp, message)
        /\ UNCHANGED notOpVars

\* the reads after the confirmation return and addPosition is called
PostReadsReturn ==
    /\ swapOp.pc = "confirmed"
    /\ swapOp' = [swapOp EXCEPT !.pc = "record", !.handOff = "called"]
    /\ UNCHANGED notOpVars

\* a read after the confirmation throws: swapSolToToken lets it through to
\* its caller, the bonding-curve functions log it and return the signature
PostReadThrows ==
    \E message \in ReadFailures :
        /\ swapOp.pc = "confirmed"
        /\ swapOp' = IF swapOp.fn \in PumpFunctions
                     THEN [swapOp EXCEPT !.pc = "returned"]
                     ELSE HandlerCaught(swapOp, message)
        /\ UNCHANGED notOpVars

\* addPosition resolves and the function returns the signature
AddPositionResolves ==
    /\ swapOp.pc = "record"
    /\ swapOp' = [swapOp EXCEPT !.pc = "returned", !.handOff = "completed"]
    /\ UNCHANGED notOpVars

\* addPosition rejects (the setup of the token's subscription threw)
AddPositionRejects ==
    \E message \in ReadFailures :
        /\ swapOp.pc = "record"
        /\ swapOp' = IF swapOp.fn \in PumpFunctions
                     THEN [swapOp EXCEPT !.pc = "returned", !.handOff = "failed"]
                     ELSE HandlerCaught([swapOp EXCEPT !.handOff = "failed"],
                                        message)
        /\ UNCHANGED notOpVars

(***************************************************************************)
(* handleBalanceChange over balances, prices and elapsed times             *)
(***************************************************************************)
\* token amounts are counted in halves of 0.000001 tokens and values in
\* halves of 0.000001 SOL, prices in whole SOL per token
Epsilon == 2
MeaningfulValue == 200

\* differences of 1, 2, 3, 200, 201 and 203 halves occur
DeltaBalances == {0, 2, 3, 203}
DeltaPrices == {0, 1, 101}
\* milliseconds since the entry's lastUpdated
Elapsed == {DEBOUNCE - 1, DEBOUNCE}
EntryTotals == {0, 5}

Abs(x) == IF x < 0 THEN 0 - x ELSE x

NoBalanceCall ==
    [tracked |-> FALSE, before |-> NoEntry, newBalance |-> 0,
     currentPrice |-> 0, elapsed |-> 0, after |-> NoEntry]

DeltaInit == balanceCall = NoBalanceCall

\* handleBalanceChange that adds the value of every sale
handleBalanceChange_EverySale(balanceInfo, tracked, newBalance, currentPrice, elapsed) ==
    LET balanceDiff == newBalance - balanceInfo.lastKnownTokens
        known == [balanceInfo EXCEPT !.currentTokens = newBalance,
                                     !.lastKnownTokens = newBalance]
    IN  IF ~balanceInfo.present \/ ~tracked THEN balanceInfo
        ELSE IF Abs(newBalance - balanceInfo.currentTokens) < Epsilon THEN balanceInfo
        ELSE IF elapsed < DEBOUNCE THEN balanceInfo
        ELSE IF balanceDiff < 0
        THEN [known EXCEPT !.totalSold = @ + Abs(balanceDiff) * currentPrice]
        ELSE IF balanceDiff > Epsilon
        THEN [known EXCEPT !.totalBought = @ + balanceDiff * currentPrice]
        ELSE known

\* handleBalanceChange: the balance entry it leaves
handleBalanceChange(balanceInfo, tracked, newBalance, currentPrice, elapsed) ==
    LET oldBalance == balanceInfo.lastKnownTokens
        balanceDiff == newBalance - oldBalance
        soldValue == Abs(balanceDiff) * currentPrice
        boughtValue == balanceDiff * currentPrice
        known == [balanceInfo EXCEPT !.currentTokens = newBalance,
                                     !.lastKnownTokens = newBalance]
    IN  IF ~balanceInfo.present \/ ~tracked THEN balanceInfo
        ELSE IF Abs(newBalance - balanceInfo.currentTokens) < Epsilon THEN balanceInfo
        ELSE IF elapsed < DEBOUNCE THEN balanceInfo
        ELSE IF balanceDiff < 0
        THEN IF soldValue > MeaningfulValue
             THEN [known EXCEPT !.totalSold = @ + soldValue]
             ELSE known
        ELSE IF balanceDiff > Epsilon
        THEN [known EXCEPT !.totalBought = @ + boughtValue]
        ELSE known

\* a notification's callback calls handleBalanceChange for a token whose
\* entry holds the balance last observed
BalanceNotificationHandled ==
    \E old \in DeltaBalances, newBalance \in DeltaBalances,
       currentPrice \in DeltaPrices, elapsed \in Elapsed,
       total \in EntryTotals, tracked \in BOOLEAN :
        LET balanceInfo == [present |-> TRUE, currentTokens |-> old,
                            lastKnownTokens |-> old, totalSold |-> total,
                            totalBought |-> total]
            after == handleBalanceChange(balanceInfo, tracked, newBalance,
                                         currentPrice, elapsed)
        IN  /\ balanceCall' =
                  [tracked |-> tracked, before |-> balanceInfo,
                   newBalance |-> newBalance, currentPrice |-> currentPrice,
                   elapsed |-> elapsed, after |-> after]
            /\ UNCHANGED notDeltaVars

(***************************************************************************)
(* The ledger subscriptions of one tracked token                           *)
(***************************************************************************)
SetupIds == 1..MaxSetups
\* the map holds no id for the token
NoSubscription == 0 - 1
IdleSetup == [pc |-> "idle", existing |-> NoSubscription]

SubInit ==
    /\ clientListeners = {}
    /\ subscriptionOf = NoSubscription
    /\ nextClientSubscriptionId = 0
    /\ setups = [c \in SetupIds |-> IdleSetup]

\* if (existingSubscription): a number is taken as present unless it is 0
Truthy(id) == id # NoSubscription /\ id # 0

\* setupAccountMonitoring's test of the earlier subscription
NeedsRemoval(id) == Truthy(id)

\* setupAccountMonitoring is entered (from the initialization's loop or from
\* initializeTokenMonitoring): with an earlier subscription it awaits the
\* removal, else it subscribes and stores the id at once
SetupStarts ==
    \E c \in SetupIds :
        /\ setups[c].pc = "idle"
        /\ nextClientSubscriptionId < MaxSubscriptions
        /\ IF NeedsRemoval(subscriptionOf)
           THEN /\ setups' = [setups EXCEPT ![c] = [pc |-> "removing",
                                                    existing |-> subscriptionOf]]
                /\ UNCHANGED <<clientListeners, subscriptionOf,
                               nextClientSubscriptionId>>
           ELSE /\ clientListeners' = clientListeners \cup {nextClientSubscriptionId}
                /\ subscriptionOf' = nextClientSubscriptionId
                /\ nextClientSubscriptionId' = nextClientSubscriptionId + 1
                /\ UNCHANGED setups
        /\ UNCHANGED notSubVars

\* removeAccountChangeListener resolves; onAccountChange registers the new
\* listener and the map takes its id
RemovalResolves ==
    \E c \in SetupIds :
        /\ setups[c].pc = "removing"
        /\ clientListeners' = (clientListeners \ {setups[c].existing})
                                 \cup {nextClientSubscriptionId}
        /\ subscriptionOf' = nextClientSubscriptionId
        /\ nextClientSubscriptionId' = nextClientSubscriptionId + 1
        /\ setups' = [setups EXCEPT ![c] = IdleSetup]
        /\ UNCHANGED notSubVars

\* removeAccountChangeListener rejects and setupAccountMonitoring throws
RemovalRejects ==
    \E c \in SetupIds :
        /\ setups[c].pc = "removing"
        /\ setups' = [setups EXCEPT ![c] = IdleSetup]
        /\ UNCHANGED <<clientListeners, subscriptionOf, nextClientSubscriptionId>>
        /\ UNCHANGED notSubVars

\* cleanup from its call to its return: the listener of the id in the map is
\* removed, unless the removal rejects, and the map is cleared
SubscriptionCleanup ==
    \E removed \in BOOLEAN :
        /\ clientListeners' = IF removed /\ subscriptionOf # NoSubscription
                              THEN clientListeners \ {subscriptionOf}
                              ELSE clientListeners
        /\ subscriptionOf' = NoSubscription
        /\ UNCHANGED <<nextClientSubscriptionId, setups>>
        /\ UNCHANGED notSubVars

(***************************************************************************)
(* Specifications                                                          *)
(***************************************************************************)
Init ==
    /\ PoolInit /\ BhInit /\ VenueInit /\ TokenInit /\ SwapInit /\ FnInit
    /\ TrackerInit /\ MonitorInit /\ PumpInit /\ OpInit /\ DeltaInit /\ SubInit

PoolSpec == Init /\ [][PoolNext]_vars

BhSpec == Init /\ [][BhNext]_vars

VenueSpec == Init /\ [][VenueNext]_vars

TokenSpec == Init /\ [][TokenNext]_vars

\* the buy and sell handlers choosing their swap function
RouteNext ==
    \/ HandleBuy
    \/ HandleSell
    \/ CheckTokenType
    \/ CurveProbeReturns
    \/ CurveProbeRejects
    \/ CurveRead
    \/ CurveChanges
    \/ TokenClockAdvance
    \/ ScanReturns
    \/ ScanRejects
    \/ MarketLoadRejects
    \/ MarketLoads

RouteSpec == Init /\ [][RouteNext]_vars

\* the swap functions working out their priority fee and tip
FeeNext ==
    \/ HandlePriorityFeeSettings
    \/ HandleJitoTipSettings
    \/ HandleJitoAggressivenessSettings
    \/ StartSwap
    \/ EstimatorResponds
    \/ PrepareJitoTip
    \/ FeedResponds
    \/ SendResolves
    \/ SendRejects
    \/ ConfirmResolves
    \/ ConfirmRejects
    \/ RecordPosition
    \/ UpdatePortfolioAfterSell
    \/ SwapClockAdvance

FeeSpec == Init /\ [][FeeNext]_vars

\* swaps from their call to the recorded position, with the tracker's
\* notification callbacks running beside them; the fee estimator and the
\* tip-floor feed are down, so every swap pays the default fee and its share
TradeNext ==
    \/ StartSwap
    \/ EstimatorUnavailable
    \/ PrepareJitoTip
    \/ FeedUnavailable
    \/ SendResolves
    \/ SendRejects
    \/ ConfirmResolves
    \/ ConfirmRejects
    \/ RecordPosition
    \/ UpdatePortfolioAfterSell
    \/ ExternalTransfer
    \/ NotificationArrives
    \/ HandlerFetches
    \/ HandleBalanceChange
    \/ HandlerFinishes
    \/ TrackerClockAdvance

TradeSpec == Init /\ [][TradeNext]_vars

\* the quote functions applied to amounts and reserves
QuoteNext ==
    \/ CalculateExpectedOutput
    \/ CalculateOutputAmount

QuoteSpec == Init /\ [][QuoteNext]_vars

\* the instruction builders applied to amounts and wallets
BuildNext ==
    \/ BuildSwapInstruction
    \/ BuildPumpBuyInstruction
    \/ BuildPumpSellInstruction

BuildSpec == Init /\ [][BuildNext]_vars

\* swap operations failing and throwing to their callers
ErrorNext ==
    \/ OperationStarts
    \/ AttemptFails

ErrorSpec == Init /\ [][ErrorNext]_vars

(***************************************************************************)
(* Connection pool claims                                                  *)
(***************************************************************************)

\* C1: once the probe of an endpoint e has failed 3 times in a row with no
\* successful probe of e in between, a getConnection() call made while some
\* other endpoint is flagged healthy returns an endpoint other than e.
C1_FailedEndpointNeverReturned ==
    [][\A e \in Urls :
          (/\ poolEvent'.op = "getConnection"
           /\ ~poolEvent'.threw
           /\ probeFailStreak[e] >= UnhealthyThreshold
           /\ \E o \in Urls \ {e} : connectionHealth[o] = "healthy")
          => poolEvent'.url # e]_vars

\* C2: once the pool is initialized, getConnection() does not throw and
\* returns one of the handles the pool holds.
C2_AlwaysReturnsHandle ==
    (poolEvent.op = "getConnection" /\ isInitialized)
        => (~poolEvent.threw /\ poolEvent.ret \in 1..Len(connections))

C2_Witness ==
    /\ poolEvent.op = "getConnection"
    /\ isInitialized
    /\ poolEvent.reset
    /\ Len(connections) >= 2

\* C3: an endpoint flagged unhealthy has a failure counter of at least 3 and
\* at least 3 failed probes since its last successful one; a successful
\* probe leaves its endpoint flagged healthy with counter 0.
C3_UnhealthyOnlyAfterThree ==
    /\ \A u \in Urls : connectionHealth[u] = "unhealthy" =>
            /\ failedConnectionAttempts[u] >= UnhealthyThreshold
            /\ probeFailStreak[u] >= UnhealthyThreshold
    /\ (poolEvent.op = "probe" /\ poolEvent.ok) =>
            /\ connectionHealth[poolEvent.url] = "healthy"
            /\ failedConnectionAttempts[poolEvent.url] = 0

C3_Witness ==
    /\ poolEvent.op = "probe"
    /\ poolEvent.ok
    /\ \E u \in Urls : connectionHealth[u] = "unhealthy"

(***************************************************************************)
(* Blockhash cache claims                                                  *)
(***************************************************************************)

\* a step in which some caller enters getBlockhash
IsCallStep ==
    \/ bhReturn'.path \in ImmediatePaths
    \/ \E c \in CallerIds : callers[c].pc = "idle" /\ callers'[c].pc = "await"

\* C4 (as claimed): two getBlockhash() calls that are both made within 30s of
\* one successful fetch (here the first one) return the identical hash.
C4_SameHashWithinThirtySeconds ==
    (bhReturn.n > 0 /\ bhReturn.early /\ earlyFirst >= 0)
        => bhReturn.blockhash = earlyFirst

\* C4 (amended): a getBlockhash() call made less than 30s after the latest
\* successful fetch returns at once, and starts no fetch, the hash and
\* lastValidBlockHeight of the cached snapshot of that fetch; two such calls
\* with no successful fetch between them so return identical values.
C4_FreshCallReturnsSnapshot ==
    [][(IsCallStep /\ connection /\ IsFresh(currentBlockhashInfo, now))
          => /\ bhReturn'.n = 1
             /\ bhReturn'.blockhash = currentBlockhashInfo.blockhash
             /\ bhReturn'.lastValidBlockHeight = currentBlockhashInfo.lastValidBlockHeight
             /\ runs' = runs]_vars

C4_Witness ==
    /\ bhReturn.n = 1
    /\ bhReturn.path = "fresh"
    /\ clock > 0
    /\ blockhashPromise.st = "settled"
    /\ blockhashPromise.blockhash # bhReturn.blockhash

\* C5: a getBlockhash() call made while the cached snapshot is 30s old or
\* older leaves a refresh in flight (the stale snapshot is not returned
\* without a refresh attempt) and starts no second one while one is in flight.
C5_StaleCallRefreshesOnce ==
    [][(IsCallStep /\ connection /\ currentBlockhashInfo # NullInfo
            /\ ~IsFresh(currentBlockhashInfo, now))
          => /\ \E r \in RunIds : runs'[r].st # "idle"
             /\ (\E r \in RunIds : runs[r].st # "idle") => runs' = runs]_vars

\* C6: once a snapshot has been obtained getBlockhash() does not throw, and
\* a call whose refresh failed on all retries returns the cached snapshot.
C6_StaleSnapshotOnFailure ==
    (bhReturn.n > 0 /\ currentBlockhashInfo # NullInfo)
        => /\ bhReturn.path # "throw"
           /\ bhReturn.path \in {"stale", "placeholder"} =>
                 /\ bhReturn.blockhash = currentBlockhashInfo.blockhash
                 /\ bhReturn.lastValidBlockHeight =
                        currentBlockhashInfo.lastValidBlockHeight

C6_Witness ==
    /\ bhReturn.n > 0
    /\ bhReturn.path = "stale"
    /\ currentBlockhashInfo # NullInfo
    /\ ~IsFresh(currentBlockhashInfo, now)

\* C7 (as claimed): every hash getBlockhash() returns from an initialized
\* cache was obtained by a successful ledger fetch (with no snapshot and a
\* refresh that failed on all retries the call throws instead).
C7_OnlyFetchedHashes ==
    (bhReturn.n > 0 /\ connection) => bhReturn.blockhash \in fetched

\* C7 (amended): getBlockhash() does not throw; while no snapshot has been
\* obtained every call returns the placeholder hash with lastValidBlockHeight
\* 0, and every hash returned is the placeholder or was obtained by a
\* successful ledger fetch.
C7_PlaceholderOrFetched ==
    bhReturn.n > 0
        => /\ bhReturn.path # "throw"
           /\ currentBlockhashInfo = NullInfo =>
                 /\ bhReturn.blockhash = PlaceholderHash
                 /\ bhReturn.lastValidBlockHeight = 0
           /\ bhReturn.blockhash # PlaceholderHash => bhReturn.blockhash \in fetched

C7_Witness ==
    /\ bhReturn.n > 0
    /\ connection
    /\ bhReturn.path = "placeholder"
    /\ currentBlockhashInfo = NullInfo
    /\ bhReturn.blockhash = PlaceholderHash

(***************************************************************************)
(* Venue discovery and venue cache claims                                  *)
(***************************************************************************)

\* C8 (as claimed): discoverPool(A, B) succeeds whenever the ledger holds a
\* venue whose mints are (A, B) or (B, A).
C8_SucceedsWheneverVenueHeld ==
    (venueEvent.op = "discovered" /\ venueEvent.held) => venueEvent.ok

\* the accounts are those of venue v itself: its state account, its two
\* vaults in its own base/quote order, its market and the market's accounts
OwnAccountsOf(v, accounts) ==
    LET d == ledgerVenues[v]
    IN  /\ accounts.keys["ammId"] = <<v, "ammId", 0 - 1>>
        /\ accounts.keys["poolCoinTokenAccount"] = <<v, "vault", d.base>>
        /\ accounts.keys["poolPcTokenAccount"] = <<v, "vault", d.quote>>
        /\ accounts.keys["serumCoinVaultAccount"] = <<v, "marketVault", d.base>>
        /\ accounts.keys["serumPcVaultAccount"] = <<v, "marketVault", d.quote>>
        /\ \A f \in {"ammOpenOrders", "ammTargetOrders", "serumMarket",
                     "serumBids", "serumAsks", "serumEventQueue",
                     "serumVaultSigner"} : accounts.keys[f] = <<v, f, 0 - 1>>

\* C8 (amended): discoverPool(A, B) called while the ledger holds a venue
\* whose mints are (A, B) or (B, A) succeeds unless one of its ledger reads
\* (a scan or the load of the order-book market) fails, and then it fails
\* with that read's error; when it succeeds it returns the own vault and
\* order-book accounts of one venue of the pair in either order; it fails
\* with the no-venue error only when the scans for both orders return
\* nothing.
C8_DiscoversOwnAccounts ==
    venueEvent.op = "discovered" =>
        /\ venueEvent.ok =>
              \E v \in VenueIds :
                  /\ {<<ledgerVenues[v].base, ledgerVenues[v].quote>>,
                      <<ledgerVenues[v].quote, ledgerVenues[v].base>>}
                         = {venueEvent.key, <<venueEvent.key[2], venueEvent.key[1]>>}
                  /\ venueEvent.result.id = venueEvent.key
                  /\ OwnAccountsOf(v, venueEvent.result)
        /\ ~venueEvent.ok => venueEvent.err \in {"no pool", "scan", "pool accounts"}
        /\ venueEvent.err = "no pool" =>
              /\ ~venueEvent.held
              /\ Matching(ledgerVenues, venueEvent.key[2], venueEvent.key[1]) = {}

C8_Witness ==
    /\ venueEvent.op = "discovered"
    /\ venueEvent.kind = "discover"
    /\ venueEvent.ok
    /\ venueEvent.held
    /\ Matching(ledgerVenues, venueEvent.key[1], venueEvent.key[2]) = {}
    /\ \E v \in Matching(ledgerVenues, venueEvent.key[2], venueEvent.key[1]) :
           OwnAccountsOf(v, venueEvent.result)

C10_NoSecondProbeWithinDay ==
    [][\A c \in TokenCallIds :
          (tokenCalls[c].pc = "idle" /\ tokenCalls'[c].pc = "probe")
          => \/ probedAt[tokenCalls'[c].token] < 0
             \/ tokenNow - probedAt[tokenCalls'[c].token] >= maxAge]_vars

(***************************************************************************)
(* Swap routing claims                                                     *)
(***************************************************************************)

\* C11: a buy or sell requested for a token whose cached classification is
\* 'migratedPump' and younger than 24h is answered from the cache and calls
\* the constant-product swap function, never the bonding-curve one, and
\* starts no probe, also for an address that ends in 'pump'.
C11_MigratedRoutesRegular ==
    [][\A t \in Tokens :
          getTokenType(tokenCache, t, tokenNow).type = "migratedPump" =>
             /\ \A c \in TokenCallIds :
                    (tokenCalls[c].pc = "idle" /\ tokenCalls'[c].token = t)
                        => tokenCalls'[c].kind \notin {"buy", "sell"}
             /\ (/\ tokenEvent'.op \in {"buy", "sell"}
                 /\ tokenEvent'.cached
                 /\ tokenEvent'.token = t)
                    => tokenEvent'.builder = "regular"]_vars

C11_Witness ==
    /\ tokenEvent.op = "buy"
    /\ tokenEvent.cached
    /\ tokenEvent.token \in PumpSuffixed
    /\ tokenEvent.type = "migratedPump"
    /\ tokenEvent.builder = "regular"
    /\ bondingCurves[tokenEvent.token] = "completed"

(***************************************************************************)
(* Priority fee and tip claims                                             *)
(***************************************************************************)
FailedEstimates == {"network", "notOk", "malformed"}

\* C12: with the automatic priority fee on, a swap whose estimator request
\* failed (fetch rejected, non-OK status, body not JSON) does not fail for
\* it and goes on with the default fee of 100000.
C12_EstimatorFailureUsesDefault ==
    (swapCall.auto /\ swapCall.est \in FailedEstimates)
        => /\ swapCall.pc # "failed"
           /\ swapCall.fee = 100000

\* C13: with useAutomaticPriorityFee false and a positive fixedPriorityFee f
\* every swap function uses f as its priority fee and sends no estimator
\* request.
C13_FixedFeeUsedWithoutRequest ==
    (swapCall.pc # "idle" /\ ~swapCall.auto /\ swapCall.fixed > 0)
        => /\ swapCall.fee = swapCall.fixed
           /\ swapCall.requests = 0
           /\ swapCall.pc # "estimator"

C13_Witness ==
    /\ swapCall.pc = "send"
    /\ ~swapCall.auto
    /\ swapCall.fixed = 250000
    /\ swapCall.fee = 250000
    /\ swapCall.path = "pumpSell"
    /\ feeSettings.useAutomaticPriorityFee

\* the tip has been worked out
TipKnown == swapCall.pc = "send"

\* C14 (as claimed): the automatic tip is the larger of the selected
\* percentile (low/medium/high: 25th/75th/95th) and floor(0.3 x fee), with
\* the feed unavailable it is floor(0.3 x fee), and the fixed tip is the
\* configured amount raised to 1000 lamports.
C14_TipIsPercentileOrShare ==
    TipKnown =>
        /\ swapCall.tipSource \in {"cache", "feed"} =>
              swapCall.tip =
                  Max(ToLamports(IF swapCall.aggr = "low" THEN swapCall.tipData.p25
                                 ELSE IF swapCall.aggr = "medium" THEN swapCall.tipData.p75
                                 ELSE swapCall.tipData.p95),
                      (swapCall.fee * 3) \div 10)
        /\ swapCall.tipSource = "nofeed" => swapCall.tip = (swapCall.fee * 3) \div 10
        /\ swapCall.tipSource = "fixed" =>
              swapCall.tip = Max(swapCall.tipFixed \div SolUnitsPerLamport, 1000)

\* C14 (amended): the automatic tip is the largest of the selected
\* percentile, 1000 lamports and floor(0.3 x fee); when the feed request
\* fails it is floor(0.3 x fee); the fixed tip is the configured amount raised
\* to 1000 lamports.
C14_TipIsPercentileMinimumOrShare ==
    TipKnown =>
        /\ swapCall.tipSource \in {"cache", "feed"} =>
              swapCall.tip =
                  Max(Max(ToLamports(IF swapCall.aggr = "low" THEN swapCall.tipData.p25
                                     ELSE IF swapCall.aggr = "medium" THEN swapCall.tipData.p75
                                     ELSE swapCall.tipData.p95), 1000),
                      (swapCall.fee * 3) \div 10)
        /\ swapCall.tipSource = "nofeed" => swapCall.tip = (swapCall.fee * 3) \div 10
        /\ swapCall.tipSource = "fixed" =>
              swapCall.tip = Max(swapCall.tipFixed \div SolUnitsPerLamport, 1000)

C14_Witness ==
    /\ swapCall.pc = "send"
    /\ swapCall.tipSource = "feed"
    /\ swapCall.aggr = "low"
    /\ swapCall.tipData.p25 \div SolUnitsPerLamport < 1000
    /\ (swapCall.fee * 3) \div 10 < 1000
    /\ swapCall.tip = 1000

(***************************************************************************)
(* Quote claims                                                            *)
(***************************************************************************)
\* C15: for every amountIn >= 0 and reserves > 0 the quote of a
\* constant-product swap is strictly less than the output reserve, and a
\* quote for a larger amountIn against the same reserves is not smaller.
C15_QuoteMonotoneAndBounded ==
    [][quoteCall'.fn # "none" =>
          /\ quoteCall'.out < quoteCall'.outReserve
          /\ ( /\ quoteCall.fn = quoteCall'.fn
               /\ quoteCall.inReserve = quoteCall'.inReserve
               /\ quoteCall.outReserve = quoteCall'.outReserve
               /\ quoteCall.decimals = quoteCall'.decimals
               /\ quoteCall.amountIn <= quoteCall'.amountIn )
             => quoteCall.out <= quoteCall'.out]_vars

\* the quote is never smaller for a larger amount (both functions)
QuoteMonotone ==
    [][( /\ quoteCall.fn = quoteCall'.fn
         /\ quoteCall.inReserve = quoteCall'.inReserve
         /\ quoteCall.outReserve = quoteCall'.outReserve
         /\ quoteCall.decimals = quoteCall'.decimals
         /\ quoteCall.amountIn <= quoteCall'.amountIn )
       => quoteCall.out <= quoteCall'.out]_vars

\* the quote never exceeds the output reserve it is taken from
ExpectedOutputAtMostReserve ==
    quoteCall.fn = "calculateExpectedOutput" => quoteCall.out <= quoteCall.outReserve

(***************************************************************************)
(* Instruction builder claims                                              *)
(***************************************************************************)
\* the 16-bit words of the amount read little-endian at bytes from..from+7
WordsAt(data, from) ==
    [j \in 1..4 |-> data[from + 2 * (j - 1)] + 256 * data[from + 2 * (j - 1) + 1]]

IsBytes(data) == \A i \in 1..Len(data) : data[i] \in 0..255

\* C16: for amounts in [0, 2^64) the constant-product instruction carries
\* 17 bytes (the byte 9, then amountIn and minimumAmountOut as 8 bytes
\* little-endian) and 18 account keys ending with the source account, the
\* destination account and the signing wallet; the bonding-curve
\* instructions carry 24 bytes (the 8-byte discriminator, then the two
\* amounts as 8 bytes little-endian); the amounts decode back from the data;
\* and a build with the inputs of the previous build gives the same
\* instruction.
C16_BuildersEncodeAndRepeat ==
    [][ /\ IsBytes(ixCall'.ix.data)
        /\ ixCall'.builder = "buildSwapInstruction" =>
              /\ Len(ixCall'.ix.data) = 17
              /\ ixCall'.ix.data[1] = 9
              /\ WordsAt(ixCall'.ix.data, 2) = ixCall'.first
              /\ WordsAt(ixCall'.ix.data, 10) = ixCall'.second
              /\ Len(ixCall'.ix.keys) = 18
              /\ ixCall'.ix.keys[16] = "userSourceTokenAccount"
              /\ ixCall'.ix.keys[17] = "userDestinationTokenAccount"
              /\ ixCall'.ix.keys[18] = ixCall'.wallet
        /\ ixCall'.builder \in {"buildPumpBuyInstruction", "buildPumpSellInstruction"} =>
              /\ Len(ixCall'.ix.data) = 24
              /\ SubSeq(ixCall'.ix.data, 1, 8) =
                     (IF ixCall'.builder = "buildPumpBuyInstruction"
                      THEN <<102, 6, 61, 18, 1, 218, 235, 234>>
                      ELSE <<51, 230, 133, 164, 1, 127, 131, 173>>)
              /\ WordsAt(ixCall'.ix.data, 9) = ixCall'.first
              /\ WordsAt(ixCall'.ix.data, 17) = ixCall'.second
        /\ ( /\ ixCall'.builder = ixCall.builder
             /\ ixCall'.wallet = ixCall.wallet
             /\ ixCall'.first = ixCall.first
             /\ ixCall'.second = ixCall.second )
           => ixCall'.ix = ixCall.ix ]_vars

C16_Witness ==
    /\ ixCall.builder = "buildSwapInstruction"
    /\ ixCall.first = <<513, 1027, 1541, 2055>>
    /\ ixCall.second = <<65535, 65535, 65535, 65535>>
    /\ ixCall.ix.data = <<9, 1, 2, 3, 4, 5, 6, 7, 8,
                          255, 255, 255, 255, 255, 255, 255, 255>>

(***************************************************************************)
(* Position tracker claims                                                 *)
(***************************************************************************)
\* C17: a step of a swap whose transaction has not ended confirmed and
\* successful (not submitted, confirmation timed out, or confirmed with an
\* on-chain error) creates or changes neither the tracked position nor the
\* balance entry of the token.
C17_FailedSwapLeavesNoPosition ==
    [][(swapCall' # swapCall /\ swapCall'.outcome # "ok")
          => /\ trackedPosition' = trackedPosition
             /\ currentBalance' = currentBalance]_vars

\* C19: totalSold or totalBought of the token is never increased twice
\* within 5 s, however the notification callbacks interleave.
C19_OneDeltaPerWindow ==
    [][(\/ currentBalance'.totalSold > currentBalance.totalSold
        \/ currentBalance'.totalBought > currentBalance.totalBought)
          => (lastDeltaAt = -1 \/ trackerNow - lastDeltaAt >= 5000)]_vars

\* C20: once updatePortfolioAfterSell has run after a confirmed, successful
\* sell of the whole balance of a tracked position, the tracker holds zero
\* current tokens and a positive totalSold for it, whether the notification
\* of the sell was handled before, is handled later, or never.
C20_FullSellRecorded ==
    ( /\ swapCall.pc = "done"
      /\ swapCall.path \in SellPaths
      /\ swapCall.outcome = "ok"
      /\ swapCall.sell = swapCall.pre
      /\ trackedPosition.present
      /\ chainAccount.amount = 0 )
        => /\ currentBalance.currentTokens = 0
           /\ currentBalance.totalSold > 0

(***************************************************************************)
(* Error normalisation claims                                              *)
(***************************************************************************)
\* the messages of the two normalisation tables
NormalizedMessages ==
    {errorMessages[i].value : i \in 1..Len(errorMessages)}
        \cup {pumpErrorMessages[i].value : i \in 1..Len(pumpErrorMessages)}

\* C18: whatever a swap operation throws to its caller is a message of the
\* error-normalisation table, never the error its swap or provider raised.
C18_OnlyNormalizedErrorsThrown ==
    errCall.pc = "thrown" => errCall.thrown \in NormalizedMessages

(***************************************************************************)
(* The tracker over several tokens                                         *)
(***************************************************************************)
MonitorNext ==
    \/ TrackerCall
    \/ WalletScanResolves
    \/ WalletScanRejects
    \/ SetupInLoop
    \/ InitializationEnds
    \/ AddPositionBody
    \/ TokenMonitoring
    \/ TrackerCleanup
    \/ AccountChanges
    \/ AccountChangeCallback
    \/ TrackerRestart

MonitorSpec == Init /\ [][MonitorNext]_vars

TokenFailures == {"mintInfo", "removeListener"}

\* an operation of the tracker never throws a failure of one token at its caller
NoTokenFailureThrown == monCall.pc = "threw" => monCall.cause \notin TokenFailures

\* when the initialization met the failure of one token, the other tokens it
\* had to set up are subscribed
OtherTokensSetUp ==
    (monCall.cause = "removeListener" /\ monCall.pc \in {"threw", "done"})
        => \A t \in monCall.pending \ {monCall.failedToken} : accountSubscriptions[t]

\* C22: a failure while tracking one token is never thrown at the caller of
\* the tracker and never leaves the other tracked tokens without monitoring.
C22_TokenFailuresIsolated == NoTokenFailureThrown /\ OtherTokensSetUp

\* C23: a getConnection call that returns gives the first handle, in cyclic
\* order from the one after the handle of the previous call, whose endpoint
\* is flagged healthy, and remembers it; with every endpoint healthy that is
\* the next handle, so n calls in a row go once through the n handles.
C23_RoundRobinFromLast ==
    [][(poolEvent'.op = "getConnection" /\ ~poolEvent'.threw) =>
          LET conns == connections'
              n == Len(conns)
              r == poolEvent'.ret - 1
              d == (r - roundRobinIndex + n) % n
              dist == IF d = 0 THEN n ELSE d
              flag(k) == connectionHealth'[conns[((roundRobinIndex + k) % n) + 1]]
          IN  /\ r \in 0..(n - 1)
              /\ flag(dist) = "healthy"
              /\ \A k \in 1..(dist - 1) : flag(k) = "unhealthy"
              /\ roundRobinIndex' = r
              /\ (\A k \in 1..n : flag(k) = "healthy")
                    => r = (roundRobinIndex + 1) % n]_vars

\* a call has passed over an endpoint flagged unhealthy
C23_Witness ==
    /\ poolEvent.op = "getConnection"
    /\ ~poolEvent.threw
    /\ Len(connections) = MaxConns
    /\ \E k \in 1..Len(connections) :
          /\ connectionHealth[connections[k]] = "unhealthy"
          /\ k # poolEvent.ret
    /\ connectionHealth[connections[poolEvent.ret]] = "healthy"

\* C24: a getConnection call that found no endpoint flagged healthy leaves
\* every flag healthy and every failure counter 0 and returns the last
\* known-good handle, or the first handle when none is known.
C24_ResetReturnsLastKnownGood ==
    (poolEvent.op = "getConnection" /\ poolEvent.reset) =>
        /\ \A k \in 1..Len(connections) :
              /\ connectionHealth[connections[k]] = "healthy"
              /\ failedConnectionAttempts[connections[k]] = 0
        /\ poolEvent.ret = IF lastSuccessfulConnection # 0
                           THEN lastSuccessfulConnection ELSE 1

\* runs of updateBlockhash that have not returned
InFlight == {r \in RunIds : runs[r].st # "idle"}

\* C25: in every reachable state of the blockhash cache at most one run of
\* updateBlockhash is in flight.
C25_OneRefreshInFlight == Cardinality(InFlight) <= 1

\* the setInterval callback runs in this step
TimerFires == updateInterval /\ now >= nextTick /\ nextTick' = nextTick + REFRESH_INTERVAL

\* C26: between initialize and cleanup, a timer tick at which no run of
\* updateBlockhash is in flight starts one.
C26_TickStartsRefresh ==
    [][(TimerFires /\ InFlight = {}) => \E r \in RunIds : runs'[r].st = "fetch"]_vars

\* C27: the cached snapshot is never replaced by a blockhash the ledger
\* issued before the one the cache holds.
C27_SnapshotNeverOlder ==
    [][currentBlockhashInfo'.blockhash >= currentBlockhashInfo.blockhash]_vars

(***************************************************************************)
(* The background timers of the pool and of the blockhash cache            *)
(***************************************************************************)
\* the pool is initialized with a primary url and no fallbacks
InitializePrimary == \E primary \in Urls : initialize(primary, <<>>)

LifecycleNext ==
    \/ InitializePrimary
    \/ HealthCheckTick
    \/ ProbeResolves
    \/ ProbeRejects
    \/ PoolCleanup
    \/ BhInitialize
    \/ TimerTick
    \/ BhCleanup
    \/ AdvanceClock
    \/ FetchResolves

LifecycleSpec == Init /\ [][LifecycleNext]_vars

\* a probe round starts; the timer's callback starts a refresh
RoundStarts == \E r \in RoundIds : rounds[r].i = 0 /\ rounds'[r].i # 0
TimerRefreshStarts == \E r \in RunIds : runs[r].st = "idle" /\ runs'[r].kind = "tick"

\* the fields of the two classes (the model's records of what was returned
\* and of when the timer is due left out)
poolFields == <<connections, roundRobinIndex, isInitialized,
                failedConnectionAttempts, connectionHealth, healthCheckInterval,
                lastSuccessfulConnection>>
bhFields == <<connection, currentBlockhashInfo, updateInterval, blockhashPromise>>

Stale(m) == {t \in DOMAIN m : tokenNow' - m[t].timestamp > maxAge}

PumpGuardNext ==
    \/ PumpSwapStarts
    \/ AttemptReads
    \/ AttemptReadFails
    \/ AttemptBuilds
    \/ AttemptSucceeds
    \/ AttemptSubmitFails

PumpGuardSpec == Init /\ [][PumpGuardNext]_vars

\* the curve an attempt read is complete or has a virtual reserve of 0
CurveUnusable(curve) ==
    \/ curve.completed
    \/ curve.virtual_token_reserves = 0
    \/ curve.virtual_sol_reserves = 0

\* C30: an attempt of swapSolToPumpToken or swapPumpTokenToSol whose read
\* of the bonding curve shows completed or a virtual reserve of 0 builds and
\* submits no instruction; it ends before, with an error.
C30_NoInstructionOnUnusableCurve ==
    [][/\ (pumpCall'.read /\ CurveUnusable(pumpCall'.curve))
             => (pumpCall'.built = "none" /\ pumpCall'.pc \notin {"submit", "returned"})
       /\ (pumpCall.pc = "validate" /\ CurveUnusable(pumpCall.curve))
             => (pumpCall'.pc = "thrown" /\ pumpCall'.thrown # <<>>)
       /\ pumpCall'.pc \in {"submit", "returned"} => pumpCall'.built # "none"]_vars

\* a second attempt has read a completed curve and has thrown, after a first
\* attempt that built its instruction and failed on slippage
C30_Witness ==
    /\ pumpCall.op = "swapSolToPumpToken"
    /\ pumpCall.attempts = 1
    /\ pumpCall.read /\ pumpCall.curve.completed
    /\ pumpCall.curve.virtual_token_reserves > 0
    /\ pumpCall.pc = "thrown"
    /\ pumpCall.built = "none"

(***************************************************************************)
(* Bonding-curve quote claims                                              *)
(***************************************************************************)
\* the two quote functions of the bonding curve applied to amounts and
\* reserves
CurveQuoteNext ==
    \/ CalculateExpectedTokenOutput
    \/ CalculateExpectedSolOutput

CurveQuoteSpec == Init /\ [][CurveQuoteNext]_vars

\* C31: for every amountIn >= 0 and virtual reserves > 0 the bonding-curve
\* quote, in the buy and in the sell direction, is the floor of
\* outputReserve * amountIn / (inputReserve + amountIn), is strictly less
\* than the output reserve, and is not smaller for a larger amountIn against
\* the same reserves.
C31_CurveQuoteFloorMonotoneBounded ==
    [][quoteCall'.fn # "none" =>
          LET q == quoteCall'
              d == q.inReserve + q.amountIn
          IN  /\ q.out * d <= q.outReserve * q.amountIn
              /\ q.outReserve * q.amountIn < (q.out + 1) * d
              /\ q.out < q.outReserve
              /\ ( /\ quoteCall.fn = q.fn
                   /\ quoteCall.inReserve = q.inReserve
                   /\ quoteCall.outReserve = q.outReserve
                   /\ quoteCall.amountIn <= q.amountIn )
                 => quoteCall.out <= q.out]_vars

\* a sale so large that the quote is one below the whole output reserve
C31_Witness ==
    /\ quoteCall.fn = "pump.calculateExpectedSolOutput"
    /\ quoteCall.amountIn = 10000000
    /\ quoteCall.inReserve = 1
    /\ quoteCall.outReserve = 100
    /\ quoteCall.out = 99

(***************************************************************************)
(* Swap request claims                                                     *)
(***************************************************************************)
RequestNext ==
    \/ SwapRequested
    \/ BackoffElapses
    \/ SendReturns
    \/ SendThrows
    \/ TransactionConfirmed
    \/ ConfirmationThrows
    \/ PostReadsReturn
    \/ PostReadThrows
    \/ AddPositionResolves
    \/ AddPositionRejects

RequestSpec == Init /\ [][RequestNext]_vars

\* C32: a swap request tries again only after a slippage error and a wait
\* of 1 s, and makes at most 3 submission attempts in all.
C32_BoundedSlippageRetries ==
    /\ swapOp.sends <= 3
    /\ swapOp.retriedOn # <<>>
          => /\ \E m \in PumpRetryableMessages : Includes(swapOp.retriedOn, m)
             /\ swapOp.delay = 1000

\* C33: a swap function that has returned a signature has handed the trade
\* to the tracker and the hand-off has completed.
C33_ReturnedAfterHandOff ==
    swapOp.pc = "returned" => swapOp.handOff = "completed"

\* C37: one handleBuyOperation call leads to at most one submitted and
\* confirmed buy transaction, also when a read or the recording after the
\* confirmation fails with a retryable error.
C37_OneConfirmedBuyPerCall ==
    swapOp.handler = "handleBuyOperation" => swapOp.confirmed <= 1

(***************************************************************************)
(* Balance notification claims                                             *)
(***************************************************************************)
DeltaNext == BalanceNotificationHandled

DeltaSpec == Init /\ [][DeltaNext]_vars

\* the difference the handled notification shows against the balance last
\* observed
Delta == balanceCall.newBalance - balanceCall.before.lastKnownTokens
SoldAdded == balanceCall.after.totalSold - balanceCall.before.totalSold
BoughtAdded == balanceCall.after.totalBought - balanceCall.before.totalBought
Observed ==
    /\ balanceCall.after.currentTokens = balanceCall.newBalance
    /\ balanceCall.after.lastKnownTokens = balanceCall.newBalance

\* C34 as stated: a notification that is not debounced adds |delta| x price
\* to the sold total when delta < 0, delta x price to the bought total when
\* delta > epsilon, changes neither total when |delta| <= epsilon, and in
\* every case leaves the new balance as the balance last observed.
C34_DeltaClassified ==
    (balanceCall.tracked /\ balanceCall.elapsed >= DEBOUNCE) =>
        /\ Delta < 0 - Epsilon
              => SoldAdded = Abs(Delta) * balanceCall.currentPrice /\ BoughtAdded = 0
        /\ Delta > Epsilon
              => BoughtAdded = Delta * balanceCall.currentPrice /\ SoldAdded = 0
        /\ Abs(Delta) <= Epsilon => SoldAdded = 0 /\ BoughtAdded = 0
        /\ Observed

\* C34: a notification for a tracked token that differs from the observed
\* balance by at least epsilon and comes at least 5 s after the entry's
\* last update adds |delta| x price to the sold total when delta < 0 and
\* that value exceeds 0.0001 SOL, adds delta x price to the bought total
\* when delta > epsilon, changes no total otherwise, and leaves the new
\* balance as the balance last observed; any other notification changes
\* nothing.
C34_DeltaAccounted ==
    LET value == Abs(Delta) * balanceCall.currentPrice
    IN  IF /\ balanceCall.tracked
           /\ balanceCall.elapsed >= DEBOUNCE
           /\ Abs(Delta) >= Epsilon
        THEN /\ Observed
             /\ SoldAdded = IF Delta < 0 /\ value > MeaningfulValue THEN value ELSE 0
             /\ BoughtAdded = IF Delta > Epsilon THEN value ELSE 0
        ELSE balanceCall.after = balanceCall.before

\* a sale of 3 units at price 1 has been handled after the debounce window:
\* the balance is taken over and nothing is added to the sold total
C34_Witness ==
    /\ balanceCall.tracked
    /\ balanceCall.elapsed >= DEBOUNCE
    /\ Delta = 0 - 3
    /\ balanceCall.currentPrice = 1
    /\ SoldAdded = 0
    /\ Observed

(***************************************************************************)
(* Startup initialization claims                                           *)
(***************************************************************************)
\* a step of initializeBalanceMonitoring
InitializationStep ==
    \/ WalletScanResolves
    \/ WalletScanRejects
    \/ SetupInLoop
    \/ InitializationEnds

C36_TipAtLeastMinimum ==
    TipKnown => swapCall.tip >= 1000

(***************************************************************************)
(* Subscription claims                                                     *)
(***************************************************************************)
SubscriptionNext ==
    \/ SetupStarts
    \/ RemovalResolves
    \/ RemovalRejects
    \/ SubscriptionCleanup

SubscriptionSpec == Init /\ [][SubscriptionNext]_vars

\* C38: a tracked token never has more than one active ledger subscription,
\* whatever ids the client hands out, and none once cleanup has cleared the
\* map and no setup is in progress.
C38_OneSubscriptionPerToken ==
    /\ Cardinality(clientListeners) <= 1
    /\ (subscriptionOf = NoSubscription /\ \A c \in SetupIds : setups[c].pc = "idle")
          => clientListeners = {}

(***************************************************************************)
(* Debounce and cost basis claims                                          *)
(***************************************************************************)
\* no swap is in progress, every notification has been delivered and every
\* callback has returned
NotificationsHandled ==
    /\ swapCall.pc \in {"idle", "done", "failed"}
    /\ notifs = 0
    /\ \A h \in HandlerIds : handlers[h].pc = "idle"

\* C39: once every notification for the changes of a tracked, monitored
\* token has been delivered and handled, the tracker's currentTokens equals
\* the ledger balance, also when a notification fell into the 5 s debounce.
C39_HandledBalanceIsCurrent ==
    (trackedPosition.present /\ currentBalance.present /\ subscribed
     /\ NotificationsHandled)
        => currentBalance.currentTokens = chainAccount.amount

\* both swaps the model follows were buys that were confirmed with the
\* tokens delivered and recorded through addPosition: nobody else moved
\* tokens, and the account holds the fill of MaxSwaps buys
SolSpentPerBuy == CHOOSE s \in SolIn : TRUE
FillPerBuy == CHOOSE f \in BuyFills : TRUE
EveryBuyRecorded ==
    /\ transfers = 0
    /\ swapCount = MaxSwaps
    /\ chainAccount.exists
    /\ chainAccount.amount = MaxSwaps * FillPerBuy
    /\ swapCall.path \notin SellPaths
    /\ trackedPosition.present
    /\ currentBalance.present
    /\ NotificationsHandled
    /\ swapCall.pc = "done"

\* C40: after confirmed buys of one token, each recorded through addPosition,
\* the cost basis initialSolSpent + totalBought accounts for the SOL spent in
\* every one of the buys, not only in the first.
C40_CostBasisCoversEveryBuy ==
    EveryBuyRecorded
        => trackedPosition.initialSolSpent + currentBalance.totalBought
              >= MaxSwaps * SolSpentPerBuy

====
